---------------------------- MODULE Spec2Model ----------------------------
(***************************************************************************)
(* Verification model of local_ai_runtime: the provider registry and its  *)
(* activation protocol, the session manager over its backing store, the   *)
(* server-side tool orchestrator (direct loop and planner) and the SSE    *)
(* streaming handler of /v1/chat/completions.                             *)
(*                                                                         *)
(* Each component has its own specification (SpecRegistry, SpecSession,   *)
(* SpecLoop, SpecStream); the variables of the other components keep the  *)
(* value they have after construction.                                    *)
(***************************************************************************)
EXTENDS Integers, Sequences, FiniteSets, TLC

(***************************************************************************)
(* Bounds of the model.                                                    *)
(***************************************************************************)
\* number of concurrent request threads is fixed at two (Threads below);
\* each thread issues at most MaxChats provider calls per request
MaxChats == 2

Threads == {1, 2}

Last(s) == s[Len(s)]

Max(a, b) == IF a >= b THEN a ELSE b

VARIABLES
  active_provider_,  \* ProviderRegistry::active_provider_ ("" = none)
  mu_,               \* ProviderRegistry::mu_: 0 = free, else the holding thread
  pmu,               \* adapter mutex per provider: 0 = free, else the holder
  loaded,            \* per provider: does it hold a loaded model
  rpc,               \* per request thread: position in the request
  rname,             \* per request thread: the resolved provider name
  rprev,             \* per request thread: prev_it of the running Activate
  rchats,            \* per request thread: provider calls made by the request
  lastStarted,       \* the provider whose Start() was called last ("" = none)
  startedBy,         \* the thread whose Activate made that call (0 = none)
  rlog               \* per request thread: what its last Activate saw and called

regVars == <<active_provider_, mu_, pmu, loaded, rpc, rname, rprev, rchats,
             lastStarted, startedBy, rlog>>

VARIABLES
  sessions_,     \* SessionManager::sessions_: the in-memory map
  store_,        \* the backing store's content (FileSessionStore::map_ / keys)
  hasStore,      \* is a store configured (cfg.type file / minimemory)
  smu,           \* SessionManager::mu_: 0 = free, else the holding thread
  spc,           \* per thread: position in the running SessionManager call
  sop,           \* per thread: the running (or last returned) call
  sloc,          \* per thread: the local Session s / out of the call
  sops,          \* per thread: number of calls started
  lastTurn       \* per session: the turn appended last to sessions_

sessVars == <<sessions_, store_, hasStore, smu, spc, sop, sloc, sops, lastTurn>>

VARIABLES
  req,        \* the request's orchestration fields as the handler read them
  loc,        \* the locals of the running RunToolLoop / RunPlanner
  loop,       \* the ToolLoopResult being built (out / loop)
  err,        \* std::string err of the handler, written through &err
  lpc,        \* position of the request task in the handler
  http,       \* status of a non-SSE response written (0 = none)
  appended    \* SessionManager calls the handler made, in order

orchVars == <<req, loc, loop, err, lpc, http, appended>>

VARIABLES
  events,     \* the SSE events written to the sink, in order
  connected,  \* is the sink writable (the client still connected)
  outq,       \* the writes of the running code segment not yet made
  helper,     \* the detached thread the request task waits for
  detached    \* the helper threads running that nobody waits for: how many
              \* of them run a ChatOnce (chat), how many a tool handler (tool)

streamVars == <<events, connected, outq, helper, detached>>

VARIABLES
  disk,       \* the files of the file store: what is at path_ and at path_.tmp
  fd          \* per thread: where the file its open ofstream writes to is now

fileVars == <<disk, fd>>

VARIABLES
  in_flight_,      \* McpClient::in_flight_
  max_in_flight_,  \* McpClient::max_in_flight_
  next_id_,        \* McpClient::next_id_
  mpc,             \* per caller: position in McpClient::Rpc
  mid,             \* per caller: the id of the request it builds
  merr,            \* per caller: *err of its last call
  mcalls,          \* per caller: number of Rpc calls started
  posted           \* the number of requests handed to cli->Post

mcpVars == <<in_flight_, max_in_flight_, next_id_, mpc, mid, merr, mcalls, posted>>

VARIABLES
  ptext,      \* assistant_text as ParseToolCallsFromAssistantText sees it
  presult,    \* what the call returned (done: has it returned)
  client_tools,  \* the request's "tools" in client-managed mode
  tool_calls     \* choices[0].message.tool_calls of the answer (sent: answered)

parseVars == <<ptext, presult, client_tools, tool_calls>>

VARIABLES
  amode,      \* which code runs the call: RunToolLoop or RunPlanner
  ahandler,   \* the kind of handler registered under the call's name
  aschema,    \* registry.GetSchema(c.name)->parameters
  ain,        \* the arguments as the model gave them (parsed loosely)
  jargs,      \* the arguments as the orchestrator holds them
  apc,        \* how far the call has got
  aresult,    \* the ToolResult of the call
  schema_err  \* std::string schema_err of RunPlanner's validation

argVars == <<amode, ahandler, aschema, ain, jargs, apc, aresult, schema_err>>

VARIABLES
  workspace_root,  \* the root the filesystem tools were built with
  fs_files,        \* the files that exist, by canonical path
  fs_tool,         \* the filesystem tool that is called
  fs_in,           \* the path or URI argument of the call
  fs_pc,           \* how far the call has got
  fs_error,        \* ToolResult::error of the call
  fs_touched       \* the canonical paths the tools opened, read or wrote

pathVars == <<workspace_root, fs_files, fs_tool, fs_in, fs_pc, fs_error, fs_touched>>

VARIABLES
  g_request_auth_headers,  \* per thread: the thread_local binding
  prev_,                   \* per thread: ScopedRequestAuthHeaders::prev_
  auth_headers,            \* per request thread: the headers of its request
  auth_alive,              \* per request thread: does auth_headers still exist
  hpc,                     \* per thread: position in the request or helper code
  hjob,                    \* per helper thread: what it was started for
  upstream                 \* the last upstream HTTP call and what it carried

authVars == <<g_request_auth_headers, prev_, auth_headers, auth_alive, hpc, hjob, upstream>>

VARIABLES
  tc_doc,     \* the "tool_calls" array of the assistant text, a JSON document
  tc_out      \* what ParseToolCallsFromAssistantText returned for it

docVars == <<tc_doc, tc_out>>

VARIABLES
  mcp_servers,    \* main(): the endpoints whose Initialize succeeded, in order
  mcp_name_maps,  \* main(): per server, remote tool name -> exposed name
  handlers_,      \* ToolRegistry: exposed name -> the tool registered under it
  replaced,       \* the registrations that overwrote a different tool
  dpc,            \* how far main() has got: boot, ide, serving
  refreshes       \* number of POST /internal/refresh_mcp_tools served

discVars == <<mcp_servers, mcp_name_maps, handlers_, replaced, dpc, refreshes>>

VARIABLES
  clock,           \* std::chrono::steady_clock::now(), in milliseconds
  last_keepalive,  \* when maybe_keepalive wrote last (or the stream began)
  last_progress,   \* when maybe_progress wrote last (or the stream began)
  progress_ms,     \* RUNTIME_STREAM_PROGRESS_MS as read by the handler
  timeout_s,       \* the timeout_s of the running wait_ready
  wstart,          \* start of the running wait_ready
  slept,           \* how long the running fut.wait_for has waited
  wpc,             \* the request task: working, waiting, gone
  kprev,           \* when this wait wrote its last keepalive comment (-1: none)
  pprev            \* when this wait wrote its last progress comment (-1: none)

waitVars == <<clock, last_keepalive, last_progress, progress_ms, timeout_s, wstart,
              slept, wpc, kprev, pprev>>

\* the components added last
lateVars == <<docVars, discVars, waitVars>>

\* the components modelled apart from the four request-handling ones
moreVars == <<pathVars, authVars, lateVars>>

extVars == <<fileVars, mcpVars, parseVars, argVars, moreVars>>

vars == <<regVars, sessVars, orchVars, streamVars, extVars>>

\* what the actions of one component leave alone: the other components
RegFrame == UNCHANGED <<sessVars, orchVars, streamVars, extVars>>

SessFrame == UNCHANGED <<regVars, orchVars, streamVars, extVars>>

LoopFrame == UNCHANGED <<regVars, sessVars, streamVars, extVars>>

StreamFrame == UNCHANGED <<regVars, sessVars, extVars>>

(***************************************************************************)
(* PROVIDER REGISTRY (src/src/providers/registry.hpp) and the provider     *)
(* adapters' Start/Stop/ChatOnce as far as they own a loaded model.        *)
(***************************************************************************)
\* providers_ as registered by main()
Providers == {"llama_cpp", "ollama", "mnn"}

\* provider names a model string can carry ("ghost" is not registered)
RequestedNames == Providers \cup {"ghost"}

\* adapters whose calls are serialized by their own mutex for the whole call
HoldsMutexWhileGenerating(p) == p = "llama_cpp"

\* adapters that keep a model resident after a chat call
KeepsModel(p) == p \in {"llama_cpp", "ollama"}

\* ProviderRegistry::Resolve: unknown provider yields none
Resolve(name) == name \in Providers

RegInit ==
  /\ active_provider_ = ""
  /\ mu_ = 0
  /\ pmu = [p \in Providers |-> 0]
  /\ loaded = [p \in Providers |-> FALSE]
  /\ rpc = [t \in Threads |-> "idle"]
  /\ rname = [t \in Threads |-> ""]
  /\ rprev = [t \in Threads |-> ""]
  /\ rchats = [t \in Threads |-> 0]
  /\ lastStarted = ""
  /\ startedBy = 0
  /\ rlog = [t \in Threads |-> <<>>]

\* chat_completions_handler: resolve the model string; an unknown provider
\* ends the request with 400 before Activate is called
ReqResolve(t) ==
  /\ rpc[t] = "idle"
  /\ \E name \in RequestedNames :
       IF Resolve(name)
         THEN /\ rname' = [rname EXCEPT ![t] = name]
              /\ rpc' = [rpc EXCEPT ![t] = "activate"]
         ELSE UNCHANGED <<rname, rpc>>
  /\ rchats' = [rchats EXCEPT ![t] = 0]
  /\ rlog' = [rlog EXCEPT ![t] = <<>>]
  /\ UNCHANGED <<active_provider_, mu_, pmu, loaded, rprev, lastStarted, startedBy>>
  /\ RegFrame

\* Activate entered without waiting for the registry mutex
RegistryMutexFree_NoLock == TRUE

\* std::lock_guard<std::mutex> lock(mu_) in Activate: mu_ can be taken
RegistryMutexFree == mu_ = 0

\* std::lock_guard<std::mutex> lock(mu_) in the adapter (Start, Stop,
\* ChatStream of LlamaCppProvider): the adapter mutex can be taken
AdapterMutexFree(p) == pmu[p] = 0

\* what an Activate call found in active_provider_ when it had the mutex
Seen(active) == [ev |-> "enter", on |-> active]

\* a call of p->Stop() or p->Start() that has returned
Hook(h, p) == [ev |-> h, on |-> p]

\* Activate skips the Stop() hook
HasPrevious_Never(prev) == FALSE

\* Activate, lines 49-51: there is an active provider and it is registered
HasPrevious(prev) == prev # "" /\ prev \in Providers

\* Activate, lines 43-48: take mu_, then the early returns
ActivateEnter(t) ==
  /\ rpc[t] = "activate"
  /\ RegistryMutexFree
  /\ IF rname[t] = "" \/ active_provider_ = rname[t] \/ rname[t] \notin Providers
       THEN \* return out (switched = false); the lock_guard releases mu_
            /\ rpc' = [rpc EXCEPT ![t] = "chat"]
            /\ UNCHANGED <<mu_, rprev>>
       ELSE /\ mu_' = t
            /\ rprev' = [rprev EXCEPT ![t] = active_provider_]
            /\ rpc' = [rpc EXCEPT ![t] = "act_stop"]
  /\ rlog' = [rlog EXCEPT ![t] = <<Seen(active_provider_)>>]
  /\ UNCHANGED <<active_provider_, pmu, loaded, rname, rchats, lastStarted, startedBy>>
  /\ RegFrame

\* Activate, lines 49-52: Stop() of the previously active provider.
\* LlamaCppProvider::Stop takes the adapter mutex and frees the model;
\* OllamaProvider::Stop clears last_model_ and evicts it from the daemon.
ActivateStop(t) ==
  /\ rpc[t] = "act_stop"
  /\ LET prev == rprev[t] IN
       IF HasPrevious(prev)
         THEN /\ HoldsMutexWhileGenerating(prev) => AdapterMutexFree(prev)
              /\ loaded' = [loaded EXCEPT ![prev] = FALSE]
              /\ rlog' = [rlog EXCEPT ![t] = Append(@, Hook("Stop", prev))]
         ELSE UNCHANGED <<loaded, rlog>>
  /\ rpc' = [rpc EXCEPT ![t] = "act_start"]
  /\ UNCHANGED <<active_provider_, mu_, pmu, rname, rprev, rchats, lastStarted, startedBy>>
  /\ RegFrame

\* Activate, line 53: Start() of the new provider
\* (LlamaCppProvider::Start takes the adapter mutex)
ActivateStart(t) ==
  /\ rpc[t] = "act_start"
  /\ HoldsMutexWhileGenerating(rname[t]) => AdapterMutexFree(rname[t])
  /\ lastStarted' = rname[t]
  /\ startedBy' = t
  /\ rlog' = [rlog EXCEPT ![t] = Append(@, Hook("Start", rname[t]))]
  /\ rpc' = [rpc EXCEPT ![t] = "act_commit"]
  /\ UNCHANGED <<active_provider_, mu_, pmu, loaded, rname, rprev, rchats>>
  /\ RegFrame

\* Activate, lines 54-58: active_provider_ = name; return releases mu_
ActivateCommit(t) ==
  /\ rpc[t] = "act_commit"
  /\ active_provider_' = rname[t]
  /\ mu_' = IF mu_ = t THEN 0 ELSE mu_
  /\ rpc' = [rpc EXCEPT ![t] = "chat"]
  /\ UNCHANGED <<pmu, loaded, rname, rprev, rchats, lastStarted, startedBy, rlog>>
  /\ RegFrame

\* provider->ChatOnce / ChatStream on the handle resolved before Activate:
\* LlamaCppProvider::ChatStream locks the adapter mutex and EnsureLoaded
\* loads the model; OllamaProvider::ChatOnce records last_model_ and the
\* daemon loads the model
ChatBegin(t) ==
  /\ rpc[t] = "chat"
  /\ rchats[t] < MaxChats
  /\ LET p == rname[t] IN
       /\ IF HoldsMutexWhileGenerating(p)
            THEN /\ AdapterMutexFree(p)
                 /\ pmu' = [pmu EXCEPT ![p] = t]
            ELSE UNCHANGED pmu
       /\ loaded' = [loaded EXCEPT ![p] = KeepsModel(p)]
  /\ rchats' = [rchats EXCEPT ![t] = @ + 1]
  /\ rpc' = [rpc EXCEPT ![t] = "generating"]
  /\ UNCHANGED <<active_provider_, mu_, rname, rprev, lastStarted, startedBy, rlog>>
  /\ RegFrame

\* the provider call takes the registry mutex before it returns, while it
\* still holds the adapter mutex
ChatEnd_TakesRegistryMutex(t) ==
  /\ rpc[t] = "generating"
  /\ RegistryMutexFree
  /\ pmu' = [p \in Providers |-> IF pmu[p] = t THEN 0 ELSE pmu[p]]
  /\ rpc' = [rpc EXCEPT ![t] = "chat"]
  /\ UNCHANGED <<active_provider_, mu_, loaded, rname, rprev, rchats, lastStarted, startedBy, rlog>>
  /\ RegFrame

\* the provider call returns; the adapter's lock_guard releases its mutex
ChatEnd(t) ==
  /\ rpc[t] = "generating"
  /\ pmu' = [p \in Providers |-> IF pmu[p] = t THEN 0 ELSE pmu[p]]
  /\ rpc' = [rpc EXCEPT ![t] = "chat"]
  /\ UNCHANGED <<active_provider_, mu_, loaded, rname, rprev, rchats, lastStarted, startedBy, rlog>>
  /\ RegFrame

\* the request is answered; the worker thread takes the next request
ReqFinish(t) ==
  /\ rpc[t] = "chat"
  /\ rpc' = [rpc EXCEPT ![t] = "idle"]
  /\ UNCHANGED <<active_provider_, mu_, pmu, loaded, rname, rprev, rchats, lastStarted, startedBy, rlog>>
  /\ RegFrame

RegNext ==
  \E t \in Threads :
    \/ ReqResolve(t)
    \/ ActivateEnter(t)
    \/ ActivateStop(t)
    \/ ActivateStart(t)
    \/ ActivateCommit(t)
    \/ ChatBegin(t)
    \/ ChatEnd(t)
    \/ ReqFinish(t)

(***************************************************************************)
(* SESSION MANAGER (src/src/session_manager.cpp) over its backing store.   *)
(***************************************************************************)
\* each thread makes at most MaxOps SessionManager calls
MaxOps == 2

Sids == {"s1", "s2"}

\* a default-constructed Session (unordered_map::operator[] / Session out)
EmptySession == [present |-> FALSE, history |-> <<>>, turns |-> <<>>]

\* a session persisted by an earlier run under the same namespace
OldSession == [present |-> TRUE, history |-> <<"old">>, turns |-> <<>>]

NoOp == [op |-> "none", sid |-> "", item |-> ""]

NoTurn == ""

\* the turn / message a call appends: unique per thread and call
ItemOf(t, k) ==
  IF t = 1 THEN (IF k = 1 THEN "a1" ELSE IF k = 2 THEN "a2" ELSE "a3")
           ELSE (IF k = 1 THEN "b1" ELSE IF k = 2 THEN "b2" ELSE "b3")

SessInit ==
  /\ sessions_ = [sid \in Sids |-> EmptySession]
  /\ hasStore \in BOOLEAN
  /\ store_ \in [Sids -> {EmptySession, OldSession}]
  /\ ~hasStore => store_ = [sid \in Sids |-> EmptySession]
  /\ smu = 0
  /\ spc = [t \in Threads |-> "idle"]
  /\ sop = [t \in Threads |-> NoOp]
  /\ sloc = [t \in Threads |-> EmptySession]
  /\ sops = [t \in Threads |-> 0]
  /\ lastTurn = [sid \in Sids |-> NoTurn]

\* a request thread calls AppendTurn, AppendToHistory or GetOrCreate
SessCall(t) ==
  /\ spc[t] = "idle"
  /\ sops[t] < MaxOps
  /\ \E op \in {"AppendTurn", "AppendToHistory", "GetOrCreate"}, sid \in Sids :
       /\ sop' = [sop EXCEPT ![t] = [op |-> op, sid |-> sid, item |-> ItemOf(t, sops[t] + 1)]]
       /\ spc' = [spc EXCEPT ![t] = IF op = "GetOrCreate" THEN "g_find" ELSE "a_lock"]
  /\ sops' = [sops EXCEPT ![t] = @ + 1]
  /\ sloc' = [sloc EXCEPT ![t] = EmptySession]
  /\ UNCHANGED <<sessions_, store_, hasStore, smu, lastTurn>>
  /\ SessFrame

\* std::lock_guard<std::mutex> lock(mu_) of the SessionManager
SessionMutexFree == smu = 0

\* s with the call's turn or messages appended (s.session_id = session_id)
Appended(s, call) ==
  IF call.op = "AppendTurn"
    THEN [present |-> TRUE, history |-> s.history, turns |-> Append(s.turns, call.item)]
    ELSE [present |-> TRUE, history |-> Append(s.history, call.item), turns |-> s.turns]

\* AppendTurn / AppendToHistory: lock mu_; s = sessions_[session_id]; append
AppendLock(t) ==
  /\ spc[t] = "a_lock"
  /\ SessionMutexFree
  /\ smu' = t
  /\ sloc' = [sloc EXCEPT ![t] = Appended(sessions_[sop[t].sid], sop[t])]
  /\ spc' = [spc EXCEPT ![t] = "a_put"]
  /\ UNCHANGED <<sessions_, store_, hasStore, sop, sops, lastTurn>>
  /\ SessFrame

\* sessions_[session_id] = s; the lock_guard's scope ends
AppendPut(t) ==
  /\ spc[t] = "a_put"
  /\ sessions_' = [sessions_ EXCEPT ![sop[t].sid] = sloc[t]]
  /\ smu' = IF smu = t THEN 0 ELSE smu
  /\ lastTurn' = IF sop[t].op = "AppendTurn"
                   THEN [lastTurn EXCEPT ![sop[t].sid] = sop[t].item]
                   ELSE lastTurn
  /\ spc' = [spc EXCEPT ![t] = IF hasStore THEN "a_save" ELSE "idle"]
  /\ UNCHANGED <<store_, hasStore, sop, sloc, sops>>
  /\ SessFrame

\* if (store_) SaveSessionToStore(s): outside the mutex; Save replaces the
\* stored session by the caller's copy
AppendSave(t) ==
  /\ spc[t] = "a_save"
  /\ store_' = [store_ EXCEPT ![sop[t].sid] = sloc[t]]
  /\ spc' = [spc EXCEPT ![t] = "idle"]
  /\ UNCHANGED <<sessions_, hasStore, smu, sop, sloc, sops, lastTurn>>
  /\ SessFrame

\* GetOrCreate, first block: lock; return the cached session if there is one
GetFind(t) ==
  /\ spc[t] = "g_find"
  /\ SessionMutexFree
  /\ IF sessions_[sop[t].sid].present
       THEN /\ sloc' = [sloc EXCEPT ![t] = sessions_[sop[t].sid]]
            /\ spc' = [spc EXCEPT ![t] = "idle"]
       ELSE /\ spc' = [spc EXCEPT ![t] = "g_load"]
            /\ UNCHANGED sloc
  /\ UNCHANGED <<sessions_, store_, hasStore, smu, sop, sops, lastTurn>>
  /\ SessFrame

\* GetOrCreate: store_->Load outside the mutex, else a new empty session
GetLoad(t) ==
  /\ spc[t] = "g_load"
  /\ sloc' = [sloc EXCEPT ![t] =
                IF hasStore /\ store_[sop[t].sid].present
                  THEN store_[sop[t].sid]
                  ELSE [EmptySession EXCEPT !.present = TRUE]]
  /\ spc' = [spc EXCEPT ![t] = "g_put"]
  /\ UNCHANGED <<sessions_, store_, hasStore, smu, sop, sops, lastTurn>>
  /\ SessFrame

\* GetOrCreate, second block: lock; sessions_[session_id] = out; return out
GetPut(t) ==
  /\ spc[t] = "g_put"
  /\ SessionMutexFree
  /\ sessions_' = [sessions_ EXCEPT ![sop[t].sid] = sloc[t]]
  /\ spc' = [spc EXCEPT ![t] = "idle"]
  /\ UNCHANGED <<store_, hasStore, smu, sop, sloc, sops, lastTurn>>
  /\ SessFrame

SessNext ==
  \E t \in Threads :
    \/ SessCall(t)
    \/ AppendLock(t)
    \/ AppendPut(t)
    \/ AppendSave(t)
    \/ GetFind(t)
    \/ GetLoad(t)
    \/ GetPut(t)

(***************************************************************************)
(* FILE SESSION STORE (src/src/session_manager.cpp): Save and PersistAll   *)
(* as the request threads run them after AppendTurn / AppendToHistory,     *)
(* step by step over the file system.                                      *)
(***************************************************************************)
\* each thread makes at most MaxSaves appends that reach the file store
MaxSaves == 1

\* a file name that does not exist
NoFile == [kind |-> "absent", sessions |-> [sid \in Sids |-> EmptySession]]

\* a file of length zero (std::ios::trunc, nothing flushed yet)
EmptyFile == [kind |-> "empty", sessions |-> [sid \in Sids |-> EmptySession]]

\* a file whose bytes are not one JSON document
GarbledFile == [kind |-> "garbled", sessions |-> [sid \in Sids |-> EmptySession]]

\* a file holding Snapshot().dump() of the map m
DocFile(m) == [kind |-> "doc", sessions |-> m]

\* the length of Snapshot().dump() grows with the entries and their items
DocSize(m) ==
  LET one(sid) == IF m[sid].present
                    THEN 1 + Len(m[sid].history) + Len(m[sid].turns) ELSE 0
  IN one("s1") + one("s2")

\* the map_ LoadAll fills from the file: nothing but complete documents load
LoadAll(f) == IF f.kind = "doc" THEN f.sessions ELSE [sid \in Sids |-> EmptySession]

FileInit ==
  /\ sessions_ = [sid \in Sids |-> EmptySession]
  /\ hasStore = TRUE
  /\ store_ \in [Sids -> {EmptySession, OldSession}]
  /\ disk = [path |-> IF \E sid \in Sids : store_[sid].present
                        THEN DocFile(store_) ELSE NoFile,
             tmp |-> NoFile]
  /\ fd = [t \in Threads |-> "none"]
  /\ smu = 0
  /\ spc = [t \in Threads |-> "idle"]
  /\ sop = [t \in Threads |-> NoOp]
  /\ sloc = [t \in Threads |-> EmptySession]
  /\ sops = [t \in Threads |-> 0]
  /\ lastTurn = [sid \in Sids |-> NoTurn]

FileFrame == UNCHANGED <<regVars, orchVars, streamVars, mcpVars, parseVars, argVars, moreVars>>

\* a request thread calls AppendTurn or AppendToHistory
FileCall(t) ==
  /\ spc[t] = "idle"
  /\ sops[t] < MaxSaves
  /\ \E op \in {"AppendTurn", "AppendToHistory"}, sid \in Sids :
       sop' = [sop EXCEPT ![t] = [op |-> op, sid |-> sid, item |-> ItemOf(t, sops[t] + 1)]]
  /\ spc' = [spc EXCEPT ![t] = "a_lock"]
  /\ sops' = [sops EXCEPT ![t] = @ + 1]
  /\ sloc' = [sloc EXCEPT ![t] = EmptySession]
  /\ UNCHANGED <<sessions_, store_, hasStore, smu, lastTurn, fileVars>>
  /\ FileFrame

\* the threads inside map_[MakeKey(s.session_id)] = s
InPut == {u \in Threads : spc[u] \in {"f_put", "f_put_raced"}}

\* Save: the thread starts map_[key] = s. No mutex guards map_: when another
\* thread is inside its own assignment, the two accesses race.
FilePutBegin(t) ==
  /\ spc[t] = "a_save"
  /\ spc' = [u \in Threads |->
               IF InPut = {} THEN (IF u = t THEN "f_put" ELSE spc[u])
               ELSE IF u = t \/ u \in InPut THEN "f_put_raced" ELSE spc[u]]
  /\ UNCHANGED <<sessions_, store_, hasStore, smu, sop, sloc, sops, lastTurn, fileVars>>
  /\ FileFrame

\* the assignment ends: alone it stores s; raced, it stores s or loses it
FilePutEnd(t) ==
  /\ spc[t] \in {"f_put", "f_put_raced"}
  /\ \/ store_' = [store_ EXCEPT ![sop[t].sid] = sloc[t]]
     \/ spc[t] = "f_put_raced" /\ store_' = store_
  /\ spc' = [spc EXCEPT ![t] = "f_open"]
  /\ UNCHANGED <<sessions_, hasStore, smu, sop, sloc, sops, lastTurn, fileVars>>
  /\ FileFrame

\* PersistAll: std::ofstream out(tmp, binary | trunc) creates path_.tmp or
\* empties the file that is there
FileOpen(t) ==
  /\ spc[t] = "f_open"
  /\ disk' = [disk EXCEPT !.tmp = EmptyFile]
  /\ fd' = [fd EXCEPT ![t] = "tmp"]
  /\ spc' = [spc EXCEPT ![t] = "f_write"]
  /\ UNCHANGED <<sessions_, store_, hasStore, smu, sop, sloc, sops, lastTurn>>
  /\ FileFrame

\* the bytes of a file after doc is written at offset 0 over old
Written(old, doc) ==
  IF old.kind = "doc" /\ DocSize(old.sessions) > DocSize(doc)
    THEN GarbledFile
    ELSE DocFile(doc)

\* the maps a Snapshot() can see: map_, and while another thread is inside
\* its assignment to map_ also the map with that assignment made
Snapshots(t) ==
  {store_} \cup {[store_ EXCEPT ![sop[u].sid] = sloc[u]] : u \in InPut \ {t}}

\* out << Snapshot().dump(), and the stream's scope ends: the bytes go to
\* the file the stream has open, wherever that file is by now
FileWrite(t) ==
  /\ spc[t] = "f_write"
  /\ \E m \in Snapshots(t) :
       disk' = IF fd[t] \in {"tmp", "path"}
                 THEN [disk EXCEPT ![fd[t]] = Written(@, m)]
                 ELSE disk
  /\ fd' = [fd EXCEPT ![t] = "none"]
  /\ spc' = [spc EXCEPT ![t] = "f_remove"]
  /\ UNCHANGED <<sessions_, store_, hasStore, smu, sop, sloc, sops, lastTurn>>
  /\ FileFrame

\* std::filesystem::remove(path, ec): the file at path_ loses its name
FileRemove(t) ==
  /\ spc[t] = "f_remove"
  /\ disk' = [disk EXCEPT !.path = NoFile]
  /\ fd' = [u \in Threads |-> IF fd[u] = "path" THEN "orphan" ELSE fd[u]]
  /\ spc' = [spc EXCEPT ![t] = "f_rename"]
  /\ UNCHANGED <<sessions_, store_, hasStore, smu, sop, sloc, sops, lastTurn>>
  /\ FileFrame

\* std::filesystem::rename(tmp, path, ec); if (ec) remove(tmp, ec)
FileRename(t) ==
  /\ spc[t] = "f_rename"
  /\ IF disk.tmp.kind = "absent"
       THEN UNCHANGED <<disk, fd>>
       ELSE /\ disk' = [path |-> disk.tmp, tmp |-> NoFile]
            /\ fd' = [u \in Threads |->
                        IF fd[u] = "path" THEN "orphan"
                        ELSE IF fd[u] = "tmp" THEN "path" ELSE fd[u]]
  /\ spc' = [spc EXCEPT ![t] = "idle"]
  /\ UNCHANGED <<sessions_, store_, hasStore, smu, sop, sloc, sops, lastTurn>>
  /\ FileFrame

\* the threads inside Save / PersistAll
InSave == {u \in Threads : spc[u] \in {"f_put", "f_put_raced", "f_open",
                                        "f_write", "f_remove", "f_rename"}}

Halted == [t \in Threads |-> "dead"]

Faulted == [t \in Threads |-> "faulted"]

\* what is left when the process is gone: the files, and no memory
ProcessGone(how) ==
  /\ spc' = how
  /\ sessions_' = [sid \in Sids |-> EmptySession]
  /\ store_' = [sid \in Sids |-> EmptySession]
  /\ smu' = 0
  /\ sop' = [t \in Threads |-> NoOp]
  /\ sloc' = [t \in Threads |-> EmptySession]
  /\ sops' = [t \in Threads |-> MaxSaves]
  /\ lastTurn' = [sid \in Sids |-> NoTurn]
  /\ fd' = [t \in Threads |-> "none"]
  /\ UNCHANGED <<hasStore, disk>>
  /\ FileFrame

\* the process stops (kill, power loss) while a Save is under way
FileCrash ==
  /\ InSave # {}
  /\ ProcessGone(Halted)

\* two unsynchronized assignments to the unordered_map can also end the
\* process (a rehash under a concurrent insert)
MapRaceFault ==
  /\ \E u \in Threads : spc[u] = "f_put_raced"
  /\ ProcessGone(Faulted)

FileNext ==
  \/ \E t \in Threads :
       \/ FileCall(t)
       \/ AppendLock(t)
       \/ AppendPut(t)
       \/ FilePutBegin(t)
       \/ FilePutEnd(t)
       \/ FileOpen(t)
       \/ FileWrite(t)
       \/ FileRemove(t)
       \/ FileRename(t)
  \/ FileCrash
  \/ MapRaceFault

(***************************************************************************)
(* MCP CLIENT (src/src/mcp_client.cpp): McpClient::Rpc as the tool         *)
(* handlers of concurrent requests call it on one client.                  *)
(***************************************************************************)
\* the threads that call one McpClient at the same time
McpCallers == {1, 2, 3}

\* each caller makes at most MaxRpcs calls
MaxRpcs == 2

\* int max_in_flight_ = 4
kDefaultMaxInFlight == 4

\* the values of MCP_MAX_IN_FLIGHT tried (0: the variable is not positive)
MaxInFlightEnv == {0, 1, 2}

\* SetMaxInFlight: if (max_in_flight > 0) max_in_flight_ = max_in_flight
SetMaxInFlight(cur, v) == IF v > 0 THEN v ELSE cur

TooManyText == "mcp: too many in-flight requests"

\* the errors of a call that was sent, and "" for a result
RpcOutcomes ==
  {"", "mcp: failed to connect", "mcp: http 500", "mcp: invalid json response",
   "json-rpc error", "mcp: missing result"}

McpInit ==
  /\ in_flight_ = 0
  /\ \E v \in MaxInFlightEnv : max_in_flight_ = SetMaxInFlight(kDefaultMaxInFlight, v)
  /\ next_id_ = 1
  /\ mpc = [t \in McpCallers |-> "idle"]
  /\ mid = [t \in McpCallers |-> 0]
  /\ merr = [t \in McpCallers |-> ""]
  /\ mcalls = [t \in McpCallers |-> 0]
  /\ posted = 0

McpFrame == UNCHANGED <<regVars, sessVars, orchVars, streamVars, fileVars, parseVars, argVars, moreVars>>

GateClosed_Never(n, max) == FALSE

\* a return path that leaves dec() out
Dec_Skipped(n) == n

\* auto dec = [&]() { lock_guard; in_flight_--; }
Dec(n) == n - 1

\* if (in_flight_ >= max_in_flight_)
GateClosed(n, max) == n >= max

\* Rpc, first block under mu_: fail at once when the gate is closed, else
\* in_flight_++. The block holds mu_ for these statements only.
RpcEnter(t) ==
  /\ mpc[t] = "idle"
  /\ mcalls[t] < MaxRpcs
  /\ mcalls' = [mcalls EXCEPT ![t] = @ + 1]
  /\ IF GateClosed(in_flight_, max_in_flight_)
       THEN /\ merr' = [merr EXCEPT ![t] = TooManyText]
            /\ UNCHANGED <<in_flight_, mpc>>
       ELSE /\ in_flight_' = in_flight_ + 1
            /\ merr' = [merr EXCEPT ![t] = ""]
            /\ mpc' = [mpc EXCEPT ![t] = "make"]
  /\ UNCHANGED <<max_in_flight_, next_id_, mid, posted>>
  /\ McpFrame

\* req["id"] = next_id_++ runs outside mu_: the read of next_id_ ...
RpcReadId(t) ==
  /\ mpc[t] = "make"
  /\ mid' = [mid EXCEPT ![t] = next_id_]
  /\ mpc' = [mpc EXCEPT ![t] = "post"]
  /\ UNCHANGED <<in_flight_, max_in_flight_, next_id_, merr, mcalls, posted>>
  /\ McpFrame

\* ... and its write, which can undo the increment of another caller; then
\* cli->Post(path, req.dump(), "application/json")
RpcPost(t) ==
  /\ mpc[t] = "post"
  /\ next_id_' = mid[t] + 1
  /\ posted' = posted + 1
  /\ mpc' = [mpc EXCEPT ![t] = "wait"]
  /\ UNCHANGED <<in_flight_, max_in_flight_, mid, merr, mcalls>>
  /\ McpFrame

\* the response (or none) arrives; every path runs dec() and returns
RpcReturn(t) ==
  /\ mpc[t] = "wait"
  /\ \E e \in RpcOutcomes : merr' = [merr EXCEPT ![t] = e]
  /\ in_flight_' = Dec(in_flight_)
  /\ mpc' = [mpc EXCEPT ![t] = "idle"]
  /\ mid' = [mid EXCEPT ![t] = 0]
  /\ UNCHANGED <<max_in_flight_, next_id_, mcalls, posted>>
  /\ McpFrame

McpNext ==
  \E t \in McpCallers :
    \/ RpcEnter(t)
    \/ RpcReadId(t)
    \/ RpcPost(t)
    \/ RpcReturn(t)

(***************************************************************************)
(* TOOL ORCHESTRATOR (src/src/openai_router.cpp): the handler of           *)
(* /v1/chat/completions with server-side tools, RunToolLoop and RunPlanner.*)
(***************************************************************************)
\* largest max_steps a request of the model carries
MaxStepsIn == 2

\* largest max_tool_calls a request of the model carries
MaxToolCallsIn == 2

\* most tool calls the model emits in one assistant message
MaxCallsPerTurn == 2

\* longest plan the model returns
MaxPlanLen == 3

\* largest planner.max_rewrites a request of the model carries
MaxRewritesIn == 1

\* the tools registered in the ToolRegistry
RegisteredTools == {"read", "write"}

\* allowed_tools: the registered tools the request selected
AllowedNames == {"read"}

HasTool(name) == name \in RegisteredTools

GetHandler(name) == name \in RegisteredTools

GetSchema(name) == name \in RegisteredTools

\* the shapes of a tool call in an assistant message: the tool named, the
\* kind of JSON value its arguments_json holds, and what the handler of the
\* tool makes of such arguments
CallShapes ==
  { [name |-> "read",  args |-> "object", ok |-> TRUE],
    [name |-> "read",  args |-> "string", ok |-> FALSE],
    [name |-> "write", args |-> "object", ok |-> TRUE] }

\* ParseJsonLoose(c.arguments_json): every arguments_json the parsers write
\* is a JSON text, so jargs is null for no call they return
JargsNull(c) == c.args \notin {"object", "string"}

\* the texts of the model: no content, a short answer, an answer of more
\* than one SSE text chunk
LongText ==
  "The file src/main.cpp registers the providers and then starts the HTTP server."

ModelTexts == {"", "ok", LongText}

\* another text where the step loop falls through
LimitStepsText_Empty == ""

LimitStepsText == "tool loop exceeded max steps"

LimitCallsText == "tool call limit exceeded"

UpstreamErr == "upstream error"

RECURSIVE SeqsUpTo(_, _)
SeqsUpTo(S, n) ==
  IF n = 0 THEN {<<>>}
  ELSE LET shorter == SeqsUpTo(S, n - 1)
       IN  shorter \cup {Append(q, x) : q \in {r \in shorter : Len(r) = n - 1}, x \in S}

\* what one ChatOnce of the tool loop gives: a provider error, or an
\* assistant text that ParseToolCallsFromAssistantText reads as tool calls,
\* that ExtractFinalFromAssistantJson reads as {"final": ...}, or plain text
LoopOutputs ==
  {[kind |-> "error", text |-> "", calls |-> <<>>]}
    \cup {[kind |-> "final", text |-> "ok", calls |-> <<>>]}
    \cup {[kind |-> "text", text |-> x, calls |-> <<>>] : x \in ModelTexts}
    \cup {[kind |-> "calls", text |-> "", calls |-> cs] :
            cs \in SeqsUpTo(CallShapes, MaxCallsPerTurn) \ {<<>>}}

\* ToolLoopResult as default-constructed
ToolLoopResult0 ==
  [final_text |-> "", executed_calls |-> <<>>, results |-> <<>>, steps |-> 0,
   hit_step_limit |-> FALSE, hit_tool_limit |-> FALSE, used_planner |-> FALSE,
   planner_failed |-> FALSE, plan_steps |-> 0, plan_rewrites |-> 0]

LocZero ==
  [max_steps |-> 0, max_tool_calls |-> 0, max_plan_steps |-> 0,
   max_plan_rewrites |-> 0, step |-> 0, tool_calls_used |-> 0, attempt |-> 0,
   rewrites |-> 0, plan |-> <<>>, i |-> 0, pending |-> <<>>, nid |-> 0]

\* the requests without "stream" (path "json"): planner as a boolean leaves
\* the planner limits at their defaults, planner as an object sets them
PlannerDefaults == [max_plan_steps |-> 6, max_plan_rewrites |-> 2]

Requests ==
  {[path |-> "json", planner |-> FALSE, max_steps |-> ms, max_tool_calls |-> mc,
    max_plan_steps |-> PlannerDefaults.max_plan_steps,
    max_plan_rewrites |-> PlannerDefaults.max_plan_rewrites,
    use_server_history |-> h] :
      ms \in 0..MaxStepsIn, mc \in (-1)..MaxToolCallsIn, h \in BOOLEAN}
    \cup
  {[path |-> "json", planner |-> TRUE, max_steps |-> ms, max_tool_calls |-> mc,
    max_plan_steps |-> ps, max_plan_rewrites |-> pr,
    use_server_history |-> TRUE] :
      ms \in {1, MaxStepsIn}, mc \in (-1)..MaxToolCallsIn,
      ps \in {0, MaxPlanLen}, pr \in (-1)..MaxRewritesIn}

LoopInit ==
  /\ req \in Requests
  /\ loc = LocZero
  /\ loop = ToolLoopResult0
  /\ err = ""
  /\ lpc = "start"
  /\ http = 0
  /\ appended = <<>>

\* the ToolResult the loop builds itself for a call it does not run
RejectResult(c, why) ==
  [tool_call_id |-> c.id, name |-> c.name, ok |-> FALSE, error |-> why]

\* the ToolResult of the tool's handler
HandlerResult(c) ==
  [tool_call_id |-> c.id, name |-> c.name, ok |-> c.ok,
   error |-> IF c.ok THEN "" ELSE "missing required field"]

\* the ToolCall of the parser: the shape with the id the parser gave it
MakeCall(shape, n) ==
  [id |-> <<"call", n>>, name |-> shape.name, args |-> shape.args, ok |-> shape.ok]

\* the ToolCall as executed_calls records it
CallOf(c) == [id |-> c.id, name |-> c.name, args |-> c.args]

\* a loop that does not look at the tool-call budget
LoopVerdict_NoBudget(c, used, max_calls) ==
  IF AllowedNames # {} /\ c.name \notin AllowedNames THEN "tool not allowed"
  ELSE IF ~HasTool(c.name) THEN "tool not found"
  ELSE IF JargsNull(c) THEN "invalid tool arguments json"
  ELSE IF ~GetHandler(c.name) THEN "no handler"
  ELSE "run"

\* what RunToolLoop does with one parsed call, its checks in their order
LoopVerdict(c, used, max_calls) ==
  IF AllowedNames # {} /\ c.name \notin AllowedNames THEN "tool not allowed"
  ELSE IF ~HasTool(c.name) THEN "tool not found"
  ELSE IF used >= max_calls THEN "limit"
  ELSE IF JargsNull(c) THEN "invalid tool arguments json"
  ELSE IF ~GetHandler(c.name) THEN "no handler"
  ELSE "run"

RejectVerdicts ==
  {"tool not allowed", "tool not found", "invalid tool arguments json"}

\* the clamps at the head of RunToolLoop and RunPlanner
ClampSteps(n) == IF n <= 0 THEN 1 ELSE n

ClampCalls(n) == IF n < 0 THEN 0 ELSE n

\* the handler calls RunToolLoop: directly, or after a failed planner
CallRunToolLoop ==
  /\ req.path \in {"json", "trace"}
  /\ \/ lpc = "start" /\ ~req.planner
     \/ lpc = "plan_ret" /\ loop.planner_failed
  /\ loc' = [LocZero EXCEPT !.max_steps = ClampSteps(req.max_steps),
                            !.max_tool_calls = ClampCalls(req.max_tool_calls)]
  /\ loop' = ToolLoopResult0
  /\ lpc' = "loop_top"
  /\ UNCHANGED <<req, err, http, appended>>
  /\ LoopFrame

\* one iteration of the step loop up to the parse of the assistant text
LoopChat ==
  /\ lpc = "loop_top"
  /\ loc.step < loc.max_steps
  /\ \E o \in LoopOutputs :
       LET out1 == [loop EXCEPT !.steps = loc.step + 1] IN
       CASE o.kind = "error" ->
              /\ loop' = out1
              /\ err' = UpstreamErr
              /\ lpc' = "loop_ret"
              /\ loc' = loc
         [] o.kind = "calls" ->
              /\ loop' = out1
              /\ loc' = [loc EXCEPT
                           !.pending = [k \in 1..Len(o.calls) |->
                                          MakeCall(o.calls[k], loc.nid + k)],
                           !.nid = loc.nid + Len(o.calls)]
              /\ lpc' = "loop_calls"
              /\ err' = err
         [] OTHER ->
              /\ loop' = [out1 EXCEPT !.final_text = o.text]
              /\ lpc' = "loop_ret"
              /\ UNCHANGED <<loc, err>>
  /\ UNCHANGED <<req, http, appended>>
  /\ LoopFrame

\* the step loop ends without a final answer
LoopStepLimit ==
  /\ lpc = "loop_top"
  /\ loc.step >= loc.max_steps
  /\ loop' = [loop EXCEPT !.hit_step_limit = TRUE, !.final_text = LimitStepsText]
  /\ lpc' = "loop_ret"
  /\ UNCHANGED <<req, loc, err, http, appended>>
  /\ LoopFrame

\* the body of `for (auto& c : *calls)` for the next call of the message
LoopCall ==
  /\ lpc = "loop_calls"
  /\ loc.pending # <<>>
  /\ LET c == Head(loc.pending)
         rest == Tail(loc.pending)
         v == LoopVerdict(c, loc.tool_calls_used, loc.max_tool_calls)
         next_loc == IF rest = <<>>
                     THEN [loc EXCEPT !.pending = rest, !.step = loc.step + 1]
                     ELSE [loc EXCEPT !.pending = rest]
         next_pc == IF rest = <<>> THEN "loop_top" ELSE "loop_calls"
     IN
     CASE v \in RejectVerdicts ->
            /\ loop' = [loop EXCEPT
                          !.executed_calls = Append(@, CallOf(c)),
                          !.results = Append(@, RejectResult(c, v))]
            /\ loc' = next_loc
            /\ lpc' = next_pc
       [] v = "limit" ->
            /\ loop' = [loop EXCEPT !.hit_tool_limit = TRUE,
                                    !.final_text = LimitCallsText]
            /\ loc' = loc
            /\ lpc' = "loop_ret"
       [] v = "no handler" ->
            /\ loop' = loop
            /\ loc' = next_loc
            /\ lpc' = next_pc
       [] OTHER ->
            /\ loop' = [loop EXCEPT
                          !.executed_calls = Append(@, CallOf(c)),
                          !.results = Append(@, HandlerResult(c))]
            /\ loc' = [next_loc EXCEPT !.tool_calls_used = loc.tool_calls_used + 1]
            /\ lpc' = next_pc
  /\ UNCHANGED <<req, err, http, appended>>
  /\ LoopFrame

\* the shapes of a plan step ParsePlannerPlan returns: the tool named, whether
\* its arguments pass ValidateSchemaLoose against the tool's schema, and what
\* the handler makes of them
PlanShapes ==
  { [name |-> "read",  valid |-> TRUE,  ok |-> TRUE],
    [name |-> "read",  valid |-> FALSE, ok |-> FALSE],
    [name |-> "write", valid |-> TRUE,  ok |-> TRUE] }

\* what one ChatOnceText of the planner gives: a provider error, a
\* {"final": ...} object, a text ParsePlannerPlan rejects, or a plan
PlanOutputs ==
  {[kind |-> "error", text |-> "", plan |-> <<>>]}
    \cup {[kind |-> "final", text |-> "ok", plan |-> <<>>]}
    \cup {[kind |-> "text", text |-> x, plan |-> <<>>] : x \in {"", "ok"}}
    \cup {[kind |-> "plan", text |-> "plan", plan |-> p] :
            p \in SeqsUpTo(PlanShapes, MaxPlanLen)}

\* why the validation loop of RunPlanner rejects one step ("" = it passes)
StepReject(s) ==
  IF AllowedNames # {} /\ s.name \notin AllowedNames THEN "tool not allowed: " \o s.name
  ELSE IF ~GetSchema(s.name) THEN "tool not found: " \o s.name
  ELSE IF ~s.valid THEN "invalid arguments for " \o s.name \o ": arguments type mismatch"
  ELSE ""

\* why of the first step the validation loop rejects ("" = the plan is ok)
PlanReject(p) ==
  LET bad == {k \in 1..Len(p) : StepReject(p[k]) # ""}
  IN  IF bad = {} THEN ""
      ELSE StepReject(p[CHOOSE k \in bad : \A m \in bad : k <= m])

Min(a, b) == IF a <= b THEN a ELSE b

\* a planner for which no attempt is the last one
LastAttempt_Never(l) == FALSE

\* if (attempt == max_plan_rewrites): the attempt whose failure ends the plan
\* phase
LastAttempt(l) == l.attempt = l.max_plan_rewrites

\* the handler calls RunPlanner
CallRunPlanner ==
  /\ req.path \in {"json", "trace"}
  /\ lpc = "start"
  /\ req.planner
  /\ loc' = [LocZero EXCEPT
               !.max_plan_steps = ClampSteps(req.max_plan_steps),
               !.max_plan_rewrites = ClampCalls(req.max_plan_rewrites),
               !.max_tool_calls = ClampCalls(req.max_tool_calls)]
  /\ loop' = [ToolLoopResult0 EXCEPT !.used_planner = TRUE]
  /\ lpc' = "plan_top"
  /\ UNCHANGED <<req, err, http, appended>>
  /\ LoopFrame

\* one iteration of the attempt loop of RunPlanner; an accepted plan is cut
\* to max_plan_steps and handed to the execution loop
PlanAttempt ==
  /\ lpc = "plan_top"
  /\ loc.attempt <= loc.max_plan_rewrites
  /\ \E o \in PlanOutputs :
       LET last == LastAttempt(loc)
           why == PlanReject(o.plan)
           failed(text) == [loop EXCEPT !.planner_failed = TRUE,
                                        !.final_text = text, !.steps = 1]
           cut == SubSeq(o.plan, 1, Min(Len(o.plan), loc.max_plan_steps))
       IN
       CASE o.kind = "error" ->
              /\ err' = UpstreamErr
              /\ loop' = [loop EXCEPT !.planner_failed = TRUE]
              /\ lpc' = "plan_ret"
              /\ loc' = loc
         [] o.kind = "final" ->
              /\ loop' = [loop EXCEPT !.final_text = o.text, !.steps = 1,
                                      !.plan_steps = 0]
              /\ lpc' = "plan_ret"
              /\ UNCHANGED <<loc, err>>
         [] o.kind = "text" /\ last ->
              /\ loop' = failed(o.text)
              /\ lpc' = "plan_ret"
              /\ UNCHANGED <<loc, err>>
         [] o.kind = "text" /\ ~last ->
              /\ loc' = [loc EXCEPT !.attempt = loc.attempt + 1]
              /\ UNCHANGED <<loop, lpc, err>>
         [] o.kind = "plan" /\ why = "" ->
              /\ loc' = [loc EXCEPT !.plan = cut, !.i = 0, !.tool_calls_used = 0]
              /\ loop' = [loop EXCEPT !.plan_steps = Len(cut),
                                      !.plan_rewrites = loc.rewrites]
              /\ lpc' = "plan_exec"
              /\ err' = err
         [] o.kind = "plan" /\ why # "" /\ last ->
              /\ loop' = failed(why)
              /\ lpc' = "plan_ret"
              /\ UNCHANGED <<loc, err>>
         [] OTHER ->
              /\ loc' = [loc EXCEPT !.rewrites = loc.attempt + 1,
                                    !.attempt = loc.attempt + 1]
              /\ UNCHANGED <<loop, lpc, err>>
  /\ UNCHANGED <<req, http, appended>>
  /\ LoopFrame

\* the ToolCall the execution loop builds for plan step i (counted from 0)
PlanCall(s, i) ==
  [id |-> <<"plan", i + 1>>, name |-> s.name, args |-> "object", ok |-> s.ok]

\* one iteration of the execution loop of RunPlanner
PlanExec ==
  /\ lpc = "plan_exec"
  /\ loc.i < Len(loc.plan)
  /\ LET c == PlanCall(loc.plan[loc.i + 1], loc.i)
         pushed == [loop EXCEPT !.executed_calls = Append(@, CallOf(c))]
         counted == [loc EXCEPT !.tool_calls_used = loc.tool_calls_used + 1,
                                !.i = loc.i + 1]
     IN
     IF loc.tool_calls_used >= loc.max_tool_calls
     THEN /\ loop' = [loop EXCEPT !.hit_tool_limit = TRUE,
                                  !.final_text = LimitCallsText,
                                  !.steps = loc.i + 1]
          /\ lpc' = "plan_ret"
          /\ loc' = loc
     ELSE /\ loop' =
               [pushed EXCEPT !.results =
                  Append(@,
                    IF AllowedNames # {} /\ c.name \notin AllowedNames
                    THEN RejectResult(c, "tool not allowed")
                    ELSE IF ~GetHandler(c.name)
                    THEN RejectResult(c, "tool not found")
                    ELSE HandlerResult(c))]
          /\ loc' = counted
          /\ lpc' = lpc
  /\ UNCHANGED <<req, err, http, appended>>
  /\ LoopFrame

\* what the summarizing ChatOnceText gives
FinalOutputs ==
  {[kind |-> "error", text |-> ""]}
    \cup {[kind |-> "final", text |-> "ok"]}
    \cup {[kind |-> "text", text |-> x] : x \in ModelTexts}

\* the summarizing call after the last plan step
PlanSummarize ==
  /\ lpc = "plan_exec"
  /\ loc.i >= Len(loc.plan)
  /\ \E o \in FinalOutputs :
       /\ loop' = [loop EXCEPT !.steps = 2, !.final_text = o.text]
       /\ err' = IF o.kind = "error" THEN UpstreamErr ELSE err
  /\ lpc' = "plan_ret"
  /\ UNCHANGED <<req, loc, http, appended>>
  /\ LoopFrame

\* the AppendToHistory calls of the handler for a finished loop
HistoryCalls(l) ==
  <<[op |-> "AppendToHistory", what |-> "request"]>>
    \o [k \in 1..Len(l.executed_calls) |-> [op |-> "AppendToHistory", what |-> "TOOL_CALL"]]
    \o [k \in 1..Len(l.results) |-> [op |-> "AppendToHistory", what |-> "TOOL_RESULT"]]
    \o <<[op |-> "AppendToHistory", what |-> "assistant"]>>

SessionCalls(l) ==
  <<[op |-> "AppendTurn", what |-> "turn"]>>
    \o (IF req.use_server_history THEN HistoryCalls(l) ELSE <<>>)

\* the tail of the non-streaming handler: 502 for an error without a text,
\* else the session is updated and the completion is sent
HandlerRespond ==
  /\ req.path = "json"
  /\ \/ lpc = "loop_ret"
     \/ lpc = "plan_ret" /\ ~loop.planner_failed
  /\ IF loop.final_text = "" /\ err # ""
     THEN /\ http' = 502
          /\ appended' = appended
     ELSE /\ http' = 200
          /\ appended' = appended \o SessionCalls(loop)
  /\ lpc' = "done"
  /\ UNCHANGED <<req, loc, loop, err>>
  /\ LoopFrame

LoopNext ==
  \/ CallRunToolLoop
  \/ LoopChat
  \/ LoopStepLimit
  \/ LoopCall
  \/ CallRunPlanner
  \/ PlanAttempt
  \/ PlanExec
  \/ PlanSummarize
  \/ HandlerRespond

(***************************************************************************)
(* STREAMING HANDLER (src/src/openai_router.cpp): the chunked content      *)
(* providers of /v1/chat/completions with "stream": true.                  *)
(***************************************************************************)
\* most content deltas the provider's ChatStream delivers
MaxDeltas == 2

\* helper threads left running by timeouts before the model stops timing out
MaxDetached == 1

kArgChunk == 48

kTextChunk == 64

\* number of substr pieces of `for (off = 0; off < size; off += chunk)`
NumPieces(text, chunk) == (Len(text) + chunk - 1) \div chunk

\* c.arguments_json as the parser (or s.arguments.dump()) wrote it
ArgsJson(c) ==
  IF c.args = "object"
  THEN "{\"path\":\"src/main.cpp\",\"offset\":0,\"limit\":4096,\"encoding\":\"utf-8\"}"
  ELSE "\"src/main.cpp\""

\* one event of the response: an SSE comment, a chat.completion.chunk (with
\* what its delta carries and its finish_reason, "" = null) or data: [DONE]
Ev(kind, fin, id, role) == [kind |-> kind, fin |-> fin, id |-> id, role |-> role]

NoId == <<"", 0>>

InitComment == Ev("comment", "", NoId, FALSE)

RoleChunk == Ev("role", "", NoId, TRUE)

ToolCallChunk(c) == Ev("tool_call", "", c.id, FALSE)

ToolResultChunk(r) == Ev("tool_result", "", r.tool_call_id, FALSE)

TextChunk == Ev("text", "", NoId, FALSE)

\* a last chunk that leaves finish_reason null
FinishChunk_Null(reason) == Ev("finish", "", NoId, FALSE)

\* write_chunk(json::object(), reason): the chunk that ends the choice
FinishChunk(reason) == Ev("finish", reason, NoId, FALSE)

\* the chunk of the error tail: delta.content = err with finish_reason "stop"
ErrorChunk == Ev("text", "stop", NoId, FALSE)

SseDone == Ev("done", "", NoId, FALSE)

\* a write of the handler: the event, and whether the handler tests the
\* result of write_chunk / write_bytes (and gives up when it is false)
W(ev, checked) == [ev |-> ev, checked |-> checked]

Repeat(w, n) == [k \in 1..n |-> w]

\* write_tool_call: the argument pieces of one call
WriteToolCall(c) ==
  Repeat(W(ToolCallChunk(c), TRUE), NumPieces(ArgsJson(c), kArgChunk))

\* a handler that looks at the result of no write
GivesUp_Never(w) == FALSE

\* does the handler stop at a failed write
GivesUp(w) == w.checked

\* write_bytes: the next write of the running code segment; a failed write
\* the handler tests ends the response (sink.done(); return false)
StreamWrite ==
  /\ outq # <<>>
  /\ LET w == Head(outq) IN
     IF connected
     THEN /\ events' = Append(events, w.ev)
          /\ outq' = Tail(outq)
          /\ lpc' = lpc
     ELSE /\ events' = events
          /\ outq' = IF GivesUp(w) THEN <<>> ELSE Tail(outq)
          /\ lpc' = IF GivesUp(w) THEN "aborted" ELSE lpc
  /\ UNCHANGED <<req, loc, loop, err, http, appended, connected, helper, detached>>
  /\ StreamFrame

\* no helper thread has been abandoned
NoDetached == [chat |-> 0, tool |-> 0]

\* the helper threads running that nobody waits for
DetachedCount == detached.chat + detached.tool

\* the handler has returned
Finished == lpc \in {"done", "aborted"}

\* the client goes away: the sink is not writable from now on
Disconnect ==
  /\ connected
  /\ ~Finished
  /\ lpc # "crashed"
  /\ connected' = FALSE
  /\ UNCHANGED <<orchVars, events, outq, helper, detached>>
  /\ StreamFrame

\* what one ChatOnce gives a streamed request: as LoopOutputs, with the tool
\* calls the handlers accept (what a handler returns does not change what
\* is written)
StreamOutputs ==
  {o \in LoopOutputs : \A k \in 1..Len(o.calls) : o.calls[k].ok}

\* the streamed requests of the model
StreamRequests ==
  {[path |-> p, planner |-> FALSE, max_steps |-> 6, max_tool_calls |-> 16,
    max_plan_steps |-> PlannerDefaults.max_plan_steps,
    max_plan_rewrites |-> PlannerDefaults.max_plan_rewrites,
    use_server_history |-> h] : p \in {"client", "plain"}, h \in BOOLEAN}
    \cup
  {[path |-> p, planner |-> FALSE, max_steps |-> ms, max_tool_calls |-> mc,
    max_plan_steps |-> PlannerDefaults.max_plan_steps,
    max_plan_rewrites |-> PlannerDefaults.max_plan_rewrites,
    use_server_history |-> TRUE] :
      p \in {"trace", "live"}, ms \in {1, MaxStepsIn}, mc \in {0, 1, MaxToolCallsIn}}
    \cup
  {[path |-> p, planner |-> TRUE, max_steps |-> 1, max_tool_calls |-> mc,
    max_plan_steps |-> MaxPlanLen, max_plan_rewrites |-> pr,
    use_server_history |-> TRUE] :
      p \in {"trace", "live"}, mc \in {0, MaxToolCallsIn}, pr \in {0, MaxRewritesIn}}

StreamInit ==
  /\ req \in StreamRequests
  /\ loc = LocZero
  /\ loop = ToolLoopResult0
  /\ err = ""
  /\ lpc = "start"
  /\ http = 0
  /\ appended = <<>>
  /\ events = <<>>
  /\ connected = TRUE
  /\ outq = <<>>
  /\ helper = "none"
  /\ detached = NoDetached

\* the content provider of the server path starts: the init comment and the
\* role chunk
StreamOpen ==
  /\ lpc = "start"
  /\ req.path = "live"
  /\ outq' = <<W(InitComment, TRUE), W(RoleChunk, TRUE)>>
  /\ lpc' = "live_dispatch"
  /\ UNCHANGED <<req, loc, loop, err, http, appended, events, connected, helper, detached>>
  /\ StreamFrame

\* with "trace" the loop ran before the response started: 502 for an error
\* without a text, else the stream opens with the precomputed result
TraceRespond ==
  /\ req.path = "trace"
  /\ \/ lpc = "loop_ret"
     \/ lpc = "plan_ret" /\ ~loop.planner_failed
  /\ IF err # "" /\ loop.final_text = ""
     THEN /\ http' = 502
          /\ lpc' = "done"
          /\ outq' = outq
     ELSE /\ http' = http
          /\ lpc' = "tail"
          /\ outq' = <<W(InitComment, TRUE), W(RoleChunk, TRUE)>>
  /\ UNCHANGED <<req, loc, loop, err, appended, events, connected, helper, detached>>
  /\ StreamFrame

\* std::thread(...).detach() of run_chat_once / execute_tool
SpawnHelper == helper' = "running"

\* the step loop of run_tool_loop_stream starts: directly, or after a failed
\* planner that left no error
CallLoopStream ==
  /\ outq = <<>>
  /\ \/ lpc = "live_dispatch" /\ ~req.planner
     \/ lpc = "p_ret" /\ loop.planner_failed /\ err = ""
  /\ loc' = [LocZero EXCEPT !.max_steps = ClampSteps(req.max_steps),
                            !.max_tool_calls = ClampCalls(req.max_tool_calls)]
  /\ loop' = ToolLoopResult0
  /\ lpc' = "l_top"
  /\ UNCHANGED <<req, err, http, appended, streamVars>>
  /\ StreamFrame

\* one iteration of the step loop begins: run_chat_once starts its thread
LoopChatStart ==
  /\ outq = <<>>
  /\ lpc = "l_top"
  /\ loc.step < loc.max_steps
  /\ loop' = [loop EXCEPT !.steps = loc.step + 1]
  /\ SpawnHelper
  /\ lpc' = "l_wait"
  /\ UNCHANGED <<req, loc, err, http, appended, events, connected, outq, detached>>
  /\ StreamFrame

StreamStepLimit ==
  /\ outq = <<>>
  /\ lpc = "l_top"
  /\ loc.step >= loc.max_steps
  /\ loop' = [loop EXCEPT !.hit_step_limit = TRUE, !.final_text = LimitStepsText]
  /\ lpc' = "l_ret"
  /\ UNCHANGED <<req, loc, err, http, appended, streamVars>>
  /\ StreamFrame

\* run_tool_loop_stream after run_chat_once returned true with output o
\* (why = the error text of a failed or timed out call)
OnLoopChat(o, why) ==
  CASE o.kind = "error" ->
         /\ err' = why
         /\ lpc' = "l_ret"
         /\ UNCHANGED <<loop, loc>>
    [] o.kind = "calls" ->
         /\ loc' = [loc EXCEPT
                      !.pending = [k \in 1..Len(o.calls) |->
                                     MakeCall(o.calls[k], loc.nid + k)],
                      !.nid = loc.nid + Len(o.calls)]
         /\ lpc' = "l_calls"
         /\ UNCHANGED <<loop, err>>
    [] OTHER ->
         /\ loop' = [loop EXCEPT !.final_text = o.text]
         /\ lpc' = "l_ret"
         /\ UNCHANGED <<loc, err>>

\* the head of run_planner_stream
CallPlannerStream ==
  /\ outq = <<>>
  /\ lpc = "live_dispatch"
  /\ req.planner
  /\ loc' = [LocZero EXCEPT
               !.max_steps = ClampSteps(req.max_steps),
               !.max_plan_steps = ClampSteps(req.max_plan_steps),
               !.max_plan_rewrites = ClampCalls(req.max_plan_rewrites),
               !.max_tool_calls = ClampCalls(req.max_tool_calls)]
  /\ loop' = [ToolLoopResult0 EXCEPT !.used_planner = TRUE]
  /\ lpc' = "p_top"
  /\ UNCHANGED <<req, err, http, appended, streamVars>>
  /\ StreamFrame

\* one iteration of the attempt loop begins
PlanChatStart ==
  /\ outq = <<>>
  /\ lpc = "p_top"
  /\ loc.attempt <= loc.max_plan_rewrites
  /\ SpawnHelper
  /\ lpc' = "p_wait"
  /\ UNCHANGED <<req, loc, loop, err, http, appended, events, connected, outq, detached>>
  /\ StreamFrame

\* run_planner_stream after run_chat_once returned true on a plan attempt
OnPlanChat(o, why) ==
  LET last == LastAttempt(loc)
      rejected == PlanReject(o.plan)
      failed(text) == [loop EXCEPT !.planner_failed = TRUE,
                                   !.final_text = text, !.steps = 1]
      cut == SubSeq(o.plan, 1, Min(Len(o.plan), loc.max_plan_steps))
  IN
  CASE o.kind = "error" ->
         /\ err' = why
         /\ loop' = [loop EXCEPT !.planner_failed = TRUE]
         /\ lpc' = "p_ret"
         /\ loc' = loc
    [] o.kind = "final" ->
         /\ loop' = [loop EXCEPT !.final_text = o.text, !.steps = 1,
                                 !.plan_steps = 0]
         /\ lpc' = "p_ret"
         /\ UNCHANGED <<loc, err>>
    [] o.kind = "text" /\ last ->
         /\ loop' = failed(o.text)
         /\ lpc' = "p_ret"
         /\ UNCHANGED <<loc, err>>
    [] o.kind = "text" /\ ~last ->
         /\ loc' = [loc EXCEPT !.attempt = loc.attempt + 1]
         /\ lpc' = "p_top"
         /\ UNCHANGED <<loop, err>>
    [] o.kind = "plan" /\ rejected = "" ->
         /\ loc' = [loc EXCEPT !.plan = cut, !.i = 0, !.tool_calls_used = 0]
         /\ loop' = [loop EXCEPT !.plan_steps = Len(cut),
                                 !.plan_rewrites = loc.rewrites]
         /\ lpc' = "p_exec"
         /\ err' = err
    [] o.kind = "plan" /\ rejected # "" /\ last ->
         /\ loop' = failed(rejected)
         /\ lpc' = "p_ret"
         /\ UNCHANGED <<loc, err>>
    [] OTHER ->
         /\ loc' = [loc EXCEPT !.rewrites = loc.attempt + 1,
                               !.attempt = loc.attempt + 1]
         /\ lpc' = "p_top"
         /\ UNCHANGED <<loop, err>>

\* the summarizing call begins after the last plan step
FinalChatStart ==
  /\ outq = <<>>
  /\ lpc = "p_exec"
  /\ loc.i >= Len(loc.plan)
  /\ SpawnHelper
  /\ lpc' = "f_wait"
  /\ UNCHANGED <<req, loc, loop, err, http, appended, events, connected, outq, detached>>
  /\ StreamFrame

\* run_planner_stream after the summarizing run_chat_once returned true
OnFinalChat(o, why) ==
  /\ IF o.kind = "error"
     THEN /\ err' = why
          /\ loop' = loop
     ELSE /\ err' = err
          /\ loop' = [loop EXCEPT !.steps = 2, !.final_text = o.text]
  /\ lpc' = "p_ret"
  /\ loc' = loc

ChatWaits == {"l_wait", "p_wait", "f_wait"}

ToolWaits == {"l_tool", "p_tool"}

\* what the ChatOnce of the helper thread gives, by the caller
ChatOutputs(pc) ==
  CASE pc = "l_wait" -> StreamOutputs
    [] pc = "p_wait" -> PlanOutputs
    [] OTHER -> FinalOutputs

OnChat(o, why) ==
  CASE lpc = "l_wait" -> OnLoopChat(o, why)
    [] lpc = "p_wait" -> OnPlanChat(o, why)
    [] OTHER -> OnFinalChat(o, why)

\* the helper thread sets its promise
HelperDone ==
  /\ helper = "running"
  /\ helper' = "ready"
  /\ UNCHANGED <<orchVars, events, connected, outq, detached>>
  /\ StreamFrame

\* a helper thread nobody waits for any more comes to its end
DetachedDone ==
  /\ \E k \in {"chat", "tool"} :
       /\ detached[k] > 0
       /\ detached' = [detached EXCEPT ![k] = @ - 1]
  /\ UNCHANGED <<orchVars, events, connected, outq, helper>>
  /\ StreamFrame

\* wait_ready returns Ready in run_chat_once
ChatReady ==
  /\ lpc \in ChatWaits
  /\ helper = "ready"
  /\ helper' = "none"
  /\ \E o \in ChatOutputs(lpc) : OnChat(o, UpstreamErr)
  /\ UNCHANGED <<req, http, appended, events, connected, outq, detached>>
  /\ StreamFrame

TimeoutOutput == [kind |-> "error", text |-> "", calls |-> <<>>, plan |-> <<>>]

\* wait_ready returns Timeout in run_chat_once: the thread is left running
ChatTimeout ==
  /\ lpc \in ChatWaits
  /\ helper = "running"
  /\ DetachedCount < MaxDetached
  /\ helper' = "none"
  /\ detached' = [detached EXCEPT !.chat = @ + 1]
  /\ OnChat(TimeoutOutput, "timeout waiting for model")
  /\ UNCHANGED <<req, http, appended, events, connected, outq>>
  /\ StreamFrame

\* wait_ready returns Disconnected: a keepalive or progress comment could
\* not be written while the helper runs; the lambdas return false and the
\* provider returns at once
WaitDisconnected ==
  /\ lpc \in ChatWaits \cup ToolWaits
  /\ helper = "running"
  /\ ~connected
  /\ helper' = "none"
  /\ detached' = IF lpc \in ToolWaits
                  THEN [detached EXCEPT !.tool = @ + 1]
                  ELSE [detached EXCEPT !.chat = @ + 1]
  /\ lpc' = "aborted"
  /\ UNCHANGED <<req, loc, loop, err, http, appended, events, connected, outq>>
  /\ StreamFrame

\* the call the running execute_tool was given
CurrentCall ==
  IF lpc \in {"l_check", "l_tool"}
  THEN Head(loc.pending)
  ELSE PlanCall(loc.plan[loc.i + 1], loc.i)

\* run_tool_loop_stream takes the next call of the message: it is recorded
\* and its chunks are written before any check
StreamCall ==
  /\ outq = <<>>
  /\ lpc = "l_calls"
  /\ loc.pending # <<>>
  /\ LET c == Head(loc.pending) IN
       /\ loop' = [loop EXCEPT !.executed_calls = Append(@, CallOf(c))]
       /\ outq' = WriteToolCall(c)
  /\ lpc' = "l_check"
  /\ UNCHANGED <<req, loc, err, http, appended, events, connected, helper, detached>>
  /\ StreamFrame

\* what run_tool_loop_stream does with the call after its chunks are out
StreamVerdict(c, used, max_calls) ==
  IF AllowedNames # {} /\ c.name \notin AllowedNames THEN "tool not allowed"
  ELSE IF ~HasTool(c.name) THEN "tool not found"
  ELSE IF used >= max_calls THEN "limit"
  ELSE IF JargsNull(c) THEN "invalid tool arguments json"
  ELSE IF ~GetHandler(c.name) THEN "no handler"
  ELSE "run"

\* the loop goes on after the call at the head of pending
NextCall(l) ==
  IF Tail(l.pending) = <<>>
  THEN [l EXCEPT !.pending = <<>>, !.step = l.step + 1]
  ELSE [l EXCEPT !.pending = Tail(l.pending)]

NextCallPc == IF Tail(loc.pending) = <<>> THEN "l_top" ELSE "l_calls"

\* the checks of run_tool_loop_stream on the call, up to execute_tool
StreamCheck ==
  /\ outq = <<>>
  /\ lpc = "l_check"
  /\ LET c == Head(loc.pending)
         v == StreamVerdict(c, loc.tool_calls_used, loc.max_tool_calls)
     IN
     CASE v \in RejectVerdicts ->
            /\ loop' = [loop EXCEPT !.results = Append(@, RejectResult(c, v))]
            /\ outq' = <<W(ToolResultChunk(RejectResult(c, v)), TRUE)>>
            /\ loc' = NextCall(loc)
            /\ lpc' = NextCallPc
            /\ helper' = helper
       [] v = "limit" ->
            /\ loop' = [loop EXCEPT !.hit_tool_limit = TRUE,
                                    !.final_text = LimitCallsText]
            /\ lpc' = "l_ret"
            /\ UNCHANGED <<loc, outq, helper>>
       [] v = "no handler" ->
            /\ loop' = [loop EXCEPT
                          !.results = Append(@, RejectResult(c, "tool not found"))]
            /\ outq' = <<W(ToolResultChunk(RejectResult(c, "tool not found")), TRUE)>>
            /\ loc' = [NextCall(loc) EXCEPT !.tool_calls_used = loc.tool_calls_used + 1]
            /\ lpc' = NextCallPc
            /\ helper' = helper
       [] OTHER ->
            /\ SpawnHelper
            /\ lpc' = "l_tool"
            /\ UNCHANGED <<loop, loc, outq>>
  /\ UNCHANGED <<req, err, http, appended, events, connected, detached>>
  /\ StreamFrame

\* one iteration of the execution loop of run_planner_stream up to the
\* chunks of the call
StreamPlanExec ==
  /\ outq = <<>>
  /\ lpc = "p_exec"
  /\ loc.i < Len(loc.plan)
  /\ LET c == PlanCall(loc.plan[loc.i + 1], loc.i) IN
     IF loc.tool_calls_used >= loc.max_tool_calls
     THEN /\ loop' = [loop EXCEPT !.hit_tool_limit = TRUE,
                                  !.final_text = LimitCallsText,
                                  !.steps = loc.i + 1]
          /\ lpc' = "p_ret"
          /\ outq' = outq
     ELSE /\ loop' = [loop EXCEPT !.executed_calls = Append(@, CallOf(c))]
          /\ outq' = WriteToolCall(c)
          /\ lpc' = "p_check"
  /\ UNCHANGED <<req, loc, err, http, appended, events, connected, helper, detached>>
  /\ StreamFrame

\* the checks of run_planner_stream on the step, up to execute_tool
StreamPlanCheck ==
  /\ outq = <<>>
  /\ lpc = "p_check"
  /\ LET c == PlanCall(loc.plan[loc.i + 1], loc.i)
         why == IF AllowedNames # {} /\ c.name \notin AllowedNames
                THEN "tool not allowed"
                ELSE IF ~HasTool(c.name) \/ ~GetHandler(c.name)
                THEN "tool not found"
                ELSE ""
     IN
     IF why # ""
     THEN /\ loop' = [loop EXCEPT !.results = Append(@, RejectResult(c, why))]
          /\ outq' = <<W(ToolResultChunk(RejectResult(c, why)), TRUE)>>
          /\ loc' = [loc EXCEPT !.tool_calls_used = loc.tool_calls_used + 1,
                                !.i = loc.i + 1]
          /\ lpc' = "p_exec"
          /\ helper' = helper
     ELSE /\ SpawnHelper
          /\ lpc' = "p_tool"
          /\ UNCHANGED <<loop, loc, outq>>
  /\ UNCHANGED <<req, err, http, appended, events, connected, detached>>
  /\ StreamFrame

\* the caller of execute_tool goes on with the result r
AfterTool(r) ==
  /\ loop' = [loop EXCEPT !.results = Append(@, r)]
  /\ outq' = <<W(ToolResultChunk(r), TRUE)>>
  /\ IF lpc = "l_tool"
     THEN /\ loc' = [NextCall(loc) EXCEPT !.tool_calls_used = loc.tool_calls_used + 1]
          /\ lpc' = NextCallPc
     ELSE /\ loc' = [loc EXCEPT !.tool_calls_used = loc.tool_calls_used + 1,
                                !.i = loc.i + 1]
          /\ lpc' = "p_exec"

\* wait_ready returns Ready in execute_tool
ToolReady ==
  /\ lpc \in ToolWaits
  /\ helper = "ready"
  /\ helper' = "none"
  /\ AfterTool(HandlerResult(CurrentCall))
  /\ UNCHANGED <<req, err, http, appended, events, connected, detached>>
  /\ StreamFrame

\* wait_ready returns Timeout in execute_tool: the thread is left running
\* and a result is made up for the call
ToolTimeout ==
  /\ lpc \in ToolWaits
  /\ helper = "running"
  /\ DetachedCount < MaxDetached
  /\ helper' = "none"
  /\ detached' = [detached EXCEPT !.tool = @ + 1]
  /\ AfterTool(RejectResult(CurrentCall, "timeout waiting for tool"))
  /\ UNCHANGED <<req, err, http, appended, events, connected>>
  /\ StreamFrame

\* a tool handler execute_tool gave up waiting for goes on running with the
\* handler object, the call and the arguments it holds by reference
\* ([&] in the thread's capture): they are gone once execute_tool and its
\* caller have moved on. The behaviour is undefined: the thread may come to
\* its end unnoticed (DetachedDone) or the process may die, which ends a
\* response that is still being written
AbandonedHandlerFault ==
  /\ detached.tool > 0
  /\ ~Finished
  /\ lpc # "crashed"
  /\ lpc' = "crashed"
  /\ outq' = <<>>
  /\ helper' = "none"
  /\ detached' = NoDetached
  /\ UNCHANGED <<req, loc, loop, err, http, appended, events, connected>>
  /\ StreamFrame

\* the tail of the server path: an error without a text is sent as one
\* content chunk with finish_reason "stop" and [DONE], neither write tested;
\* else the text goes out in pieces, then the stop chunk
StreamTail ==
  /\ outq = <<>>
  /\ \/ lpc \in {"tail", "l_ret"}
     \/ lpc = "p_ret" /\ ~(loop.planner_failed /\ err = "")
  /\ IF err # "" /\ loop.final_text = ""
     THEN /\ outq' = <<W(ErrorChunk, FALSE), W(SseDone, FALSE)>>
          /\ lpc' = "closing"
     ELSE /\ outq' = Repeat(W(TextChunk, TRUE), NumPieces(loop.final_text, kTextChunk))
                       \o <<W(FinishChunk("stop"), TRUE)>>
          /\ lpc' = "commit"
  /\ UNCHANGED <<req, loc, loop, err, http, appended, events, connected, helper, detached>>
  /\ StreamFrame

\* after the stop chunk: the session is updated, then [DONE] is written
StreamCommit ==
  /\ outq = <<>>
  /\ lpc = "commit"
  /\ appended' = appended \o SessionCalls(loop)
  /\ outq' = <<W(SseDone, TRUE)>>
  /\ lpc' = "closing"
  /\ UNCHANGED <<req, loc, loop, err, http, events, connected, helper, detached>>
  /\ StreamFrame

\* sink.done(); the content provider returns
SinkDone ==
  /\ outq = <<>>
  /\ lpc = "closing"
  /\ lpc' = "done"
  /\ UNCHANGED <<req, loc, loop, err, http, appended, streamVars>>
  /\ StreamFrame

RECURSIVE ConcatAll(_)
ConcatAll(seqs) ==
  IF seqs = <<>> THEN <<>> ELSE Head(seqs) \o ConcatAll(Tail(seqs))

\* the session calls of the client-managed and the plain path
TurnCalls ==
  <<[op |-> "AppendTurn", what |-> "turn"]>>
    \o (IF req.use_server_history
        THEN <<[op |-> "AppendToHistory", what |-> "request"],
               [op |-> "AppendToHistory", what |-> "assistant"]>>
        ELSE <<>>)

\* client-managed tools: one ChatOnce in the handler, then the content
\* provider writes the calls (or the text) of the answer
ClientChat ==
  /\ lpc = "start"
  /\ req.path = "client"
  /\ \E o \in StreamOutputs :
       LET calls == [k \in 1..Len(o.calls) |-> MakeCall(o.calls[k], k)] IN
       CASE o.kind = "error" ->
              /\ http' = 502
              /\ err' = UpstreamErr
              /\ lpc' = "done"
              /\ UNCHANGED <<loop, loc, outq>>
         [] o.kind = "calls" ->
              /\ loc' = [loc EXCEPT !.pending = calls]
              /\ outq' = <<W(InitComment, TRUE), W(RoleChunk, TRUE)>>
                           \o ConcatAll([k \in 1..Len(calls) |-> WriteToolCall(calls[k])])
                           \o <<W(FinishChunk("tool_calls"), TRUE)>>
              /\ lpc' = "c_commit"
              /\ UNCHANGED <<loop, err, http>>
         [] OTHER ->
              /\ loop' = [loop EXCEPT !.final_text = o.text]
              /\ outq' = <<W(InitComment, TRUE), W(RoleChunk, TRUE)>>
                           \o (IF o.text # "" THEN <<W(TextChunk, TRUE)>> ELSE <<>>)
                           \o <<W(FinishChunk("stop"), TRUE)>>
              /\ lpc' = "c_commit"
              /\ UNCHANGED <<loc, err, http>>
  /\ UNCHANGED <<req, appended, events, connected, helper, detached>>
  /\ StreamFrame

\* client-managed tools after the finish chunk: the session is updated, then
\* [DONE] is written and its result is not looked at
ClientCommit ==
  /\ outq = <<>>
  /\ lpc = "c_commit"
  /\ appended' = appended \o TurnCalls
  /\ outq' = <<W(SseDone, FALSE)>>
  /\ lpc' = "closing"
  /\ UNCHANGED <<req, loc, loop, err, http, events, connected, helper, detached>>
  /\ StreamFrame

\* no tools: the content provider starts and calls provider->ChatStream
PlainOpen ==
  /\ lpc = "start"
  /\ req.path = "plain"
  /\ outq' = <<W(InitComment, TRUE)>>
  /\ lpc' = "pl_stream"
  /\ UNCHANGED <<req, loc, loop, err, http, appended, events, connected, helper, detached>>
  /\ StreamFrame

\* the on_delta callback: the first chunk carries the role with the content
PlainDelta ==
  /\ outq = <<>>
  /\ lpc = "pl_stream"
  /\ loc.i < MaxDeltas
  /\ outq' = <<W(Ev("text", "", NoId, loc.i = 0), TRUE)>>
  /\ loc' = [loc EXCEPT !.i = loc.i + 1]
  /\ UNCHANGED <<req, loop, err, lpc, http, appended, events, connected, helper, detached>>
  /\ StreamFrame

\* the finish_reason on_done hands over ("stop" when it is not called)
FinishReasons == {"stop", "length"}

\* ChatStream returns (with or without an error): the finish chunk
PlainEnd ==
  /\ outq = <<>>
  /\ lpc = "pl_stream"
  /\ \E fr \in FinishReasons : outq' = <<W(FinishChunk(fr), TRUE)>>
  /\ lpc' = "pl_commit"
  /\ UNCHANGED <<req, loc, loop, err, http, appended, events, connected, helper, detached>>
  /\ StreamFrame

\* no tools, after the finish chunk: the session is updated, then [DONE]
PlainCommit ==
  /\ outq = <<>>
  /\ lpc = "pl_commit"
  /\ appended' = appended \o TurnCalls
  /\ outq' = <<W(SseDone, TRUE)>>
  /\ lpc' = "closing"
  /\ UNCHANGED <<req, loc, loop, err, http, events, connected, helper, detached>>
  /\ StreamFrame

StreamNext ==
  \/ StreamWrite
  \/ Disconnect
  \/ StreamOpen
  \/ CallRunToolLoop
  \/ LoopChat
  \/ LoopStepLimit
  \/ LoopCall
  \/ CallRunPlanner
  \/ PlanAttempt
  \/ PlanExec
  \/ PlanSummarize
  \/ TraceRespond
  \/ CallLoopStream
  \/ LoopChatStart
  \/ StreamStepLimit
  \/ CallPlannerStream
  \/ PlanChatStart
  \/ FinalChatStart
  \/ HelperDone
  \/ DetachedDone
  \/ ChatReady
  \/ ChatTimeout
  \/ WaitDisconnected
  \/ StreamCall
  \/ StreamCheck
  \/ StreamPlanExec
  \/ StreamPlanCheck
  \/ ToolReady
  \/ ToolTimeout
  \/ AbandonedHandlerFault
  \/ StreamTail
  \/ StreamCommit
  \/ SinkDone
  \/ ClientChat
  \/ ClientCommit
  \/ PlainOpen
  \/ PlainDelta
  \/ PlainEnd
  \/ PlainCommit

(***************************************************************************)
(* TOOL-CALL PARSING (src/src/tooling.cpp): ParseToolCallsFromAssistantText*)
(* over texts of a small JSON: "1" is a number, "{" v "}" an object with   *)
(* one member, "{" "}" the empty object, "w" a bare word, " " white space, *)
(* and "q" ... "q" a dumped string.                                        *)
(***************************************************************************)
\* the characters of a string value in the model's answer
JsonTokens == {"{", "}", "1", "w", " "}

\* the longest string value tried
MaxArgLen == 3

RECURSIVE TrimLeft(_)
TrimLeft(s) == IF s # <<>> /\ Head(s) = " " THEN TrimLeft(Tail(s)) ELSE s

RECURSIVE TrimRight(_)
TrimRight(s) ==
  IF s # <<>> /\ Last(s) = " " THEN TrimRight(SubSeq(s, 1, Len(s) - 1)) ELSE s

Trim(s) == TrimRight(TrimLeft(s))

\* is the text, white space between tokens dropped, one JSON value
RECURSIVE IsJsonValue(_)
IsJsonValue(s) ==
  \/ s = <<"1">>
  \/ /\ Len(s) >= 2
     /\ s[1] = "q" /\ s[Len(s)] = "q"
     /\ \A i \in 2..(Len(s) - 1) : s[i] # "q"
  \/ /\ Len(s) >= 2
     /\ s[1] = "{" /\ s[Len(s)] = "}"
     /\ (Len(s) = 2 \/ IsJsonValue(SubSeq(s, 2, Len(s) - 1)))

\* nlohmann::json::parse(text, nullptr, false) is not discarded
JsonParses(text) ==
  LET quoted == Len(text) >= 2 /\ text[1] = "q"
  IN IsJsonValue(IF quoted THEN Trim(text) ELSE SelectSeq(text, LAMBDA c : c # " "))

\* the scan of ExtractFirstJsonObject from position i at the given depth
RECURSIVE ScanObject(_, _, _, _)
ScanObject(text, pos, i, depth) ==
  IF i > Len(text) THEN <<>>
  ELSE LET d == IF text[i] = "{" THEN depth + 1
                ELSE IF text[i] = "}" THEN depth - 1 ELSE depth
       IN IF text[i] = "}" /\ d = 0 THEN SubSeq(text, pos, i)
          ELSE ScanObject(text, pos, i + 1, d)

\* ExtractFirstJsonObject: from the first "{" to the "}" that closes it;
\* <<>> stands for std::nullopt
ExtractFirstJsonObject(text) ==
  LET opens == {i \in 1..Len(text) : text[i] = "{"}
  IN IF opens = {} THEN <<>>
     ELSE LET pos == CHOOSE i \in opens : \A j \in opens : i <= j
          IN ScanObject(text, pos, pos, 0)

\* ParseJsonLoose(text).has_value()
ParseJsonLoose(text) ==
  LET trimmed == Trim(text)
  IN /\ trimmed # <<>>
     /\ \/ JsonParses(trimmed)
        \/ /\ ExtractFirstJsonObject(trimmed) # <<>>
           /\ JsonParses(ExtractFirstJsonObject(trimmed))

\* nlohmann::json(s).dump(): the string as a JSON string
DumpString(s) == <<"q">> \o s \o <<"q">>

EmptyObjectText == <<"{", "}">>

\* the values of an "arguments" member: a string, another JSON value (its
\* dump in s), null, or no such member
StringArg(s) == [kind |-> "string", s |-> s]

ValueArg(v) == [kind |-> "json", s |-> v]

NullArg == [kind |-> "null", s |-> <<>>]

AbsentArg == [kind |-> "absent", s |-> <<>>]

ArgVals ==
  {StringArg(s) : s \in SeqsUpTo(JsonTokens, MaxArgLen)}
    \cup {ValueArg(<<"1">>), ValueArg(EmptyObjectText), ValueArg(<<"{", "1", "}">>)}
    \cup {NullArg, AbsentArg}

\* set_args / the same branches in ParseToolCallsFromAssistantText
SetArgs(a) ==
  LET j == IF a.kind = "string"
             THEN (IF ParseJsonLoose(a.s) THEN a.s ELSE DumpString(a.s))
           ELSE IF a.kind = "json" THEN a.s
           ELSE EmptyObjectText
  IN IF j = <<>> THEN EmptyObjectText ELSE j

ParsedCall(name, a) == [name |-> name, arguments_json |-> SetArgs(a)]

\* make_call of ExtractToolCallsFromJson: no call without arguments or name
MakeCallFrom(item) ==
  IF item.args.kind = "absent" \/ item.name = "" THEN <<>>
  ELSE <<ParsedCall(item.name, item.args)>>

RECURSIVE MakeCalls(_)
MakeCalls(items) ==
  IF items = <<>> THEN <<>> ELSE MakeCallFrom(Head(items)) \o MakeCalls(Tail(items))

NoCalls == [has |-> FALSE, calls |-> <<>>]

SomeCalls(cs) == [has |-> TRUE, calls |-> cs]

\* ExtractToolCallsFromJson over a document with a "tool_call" member (zero
\* or one), the root's own name / arguments, and a "tool_calls" array
ExtractToolCallsFromJson(doc) ==
  IF MakeCalls(doc.tool_call) # <<>> THEN SomeCalls(MakeCalls(doc.tool_call))
  ELSE IF MakeCallFrom(doc.self) # <<>> THEN SomeCalls(MakeCallFrom(doc.self))
  ELSE IF ~doc.has_array THEN NoCalls
  ELSE IF MakeCalls(doc.tool_calls) = <<>> THEN NoCalls
  ELSE SomeCalls(MakeCalls(doc.tool_calls))

\* the calls made of what llama_agent::ToolCallParser::parse returned
RECURSIVE FromParser(_)
FromParser(parsed) ==
  IF parsed = <<>> THEN <<>>
  ELSE LET c == Head(parsed)
       IN (IF c.name # "" THEN <<ParsedCall(c.name, c.args)>> ELSE <<>>)
            \o FromParser(Tail(parsed))

\* ParseToolCallsFromAssistantText for a text without <tool_call> tags and
\* without todowrite / cat commands
ParseToolCallsFromAssistantText(t) ==
  IF FromParser(t.parsed) # <<>> THEN SomeCalls(FromParser(t.parsed))
  ELSE IF t.is_json THEN ExtractToolCallsFromJson(t.doc)
  ELSE NoCalls

ParseItems == [name : {"", "read"}, args : ArgVals]

NoItem == [name |-> "", args |-> AbsentArg]

\* a second element of a list: without a name, without arguments, or whole
SecondItems == {NoItem, [name |-> "write", args |-> NullArg],
                [name |-> "write", args |-> AbsentArg]}

NoDoc == [tool_call |-> <<>>, self |-> NoItem, has_array |-> FALSE, tool_calls |-> <<>>]

NoText == [parsed |-> <<>>, is_json |-> FALSE, doc |-> NoDoc]

ParseInputs ==
  {[parsed |-> <<it>>, is_json |-> FALSE, doc |-> NoDoc] : it \in ParseItems}
    \cup {[parsed |-> <<it, it2>>, is_json |-> FALSE, doc |-> NoDoc] :
            it \in ParseItems, it2 \in SecondItems}
    \cup {[parsed |-> <<>>, is_json |-> TRUE, doc |-> [NoDoc EXCEPT !.tool_call = <<it>>]] :
            it \in ParseItems}
    \cup {[parsed |-> <<>>, is_json |-> TRUE, doc |-> [NoDoc EXCEPT !.self = it]] :
            it \in ParseItems}
    \cup {[parsed |-> <<NoItem>>, is_json |-> TRUE,
           doc |-> [NoDoc EXCEPT !.has_array = TRUE, !.tool_calls = <<it, it2>>]] :
            it \in ParseItems, it2 \in SecondItems}
    \cup {NoText,
          [parsed |-> <<>>, is_json |-> TRUE, doc |-> [NoDoc EXCEPT !.has_array = TRUE]]}

NotParsed == [done |-> FALSE, has |-> FALSE, calls |-> <<>>]


(***************************************************************************)
(* ARGUMENTS OF A TOOL CALL (src/src/openai_router.cpp): the repair of the *)
(* arguments in RunToolLoop, the validation of a plan step in RunPlanner,  *)
(* and the ToolResult the call ends with.                                  *)
(***************************************************************************)
\* the keys of arguments and schemas told apart
ArgKeys == {"filePath", "path", "uri", "n"}

PathKeys == {"filePath", "path", "uri"}

\* a JSON value of an arguments object: its type and its text
NoVal == [t |-> "none", v |-> ""]

StrVal(v) == [t |-> "string", v |-> v]

IntVal(v) == [t |-> "integer", v |-> v]

EmptyObject == [k \in ArgKeys |-> NoVal]

\* jargs: an object, a string, or std::nullopt (raw: the text it came from)
ObjArgs(o) == [kind |-> "object", obj |-> o, raw |-> ""]

StrArgs(raw) == [kind |-> "string", obj |-> EmptyObject, raw |-> raw]

NoArgs(raw) == [kind |-> "none", obj |-> EmptyObject, raw |-> raw]

\* a value for each path key, to see where a value ends up
ValueOf(k) == IF k = "filePath" THEN "f" ELSE IF k = "path" THEN "p" ELSE "u"

ArgObjects ==
  {[k \in ArgKeys |-> IF k = "n" THEN nv
                      ELSE IF k \in ks THEN StrVal(ValueOf(k)) ELSE NoVal] :
     ks \in SUBSET PathKeys, nv \in {NoVal, IntVal("1"), StrVal("1")}}

RawTexts == {"./a", "hello"}

ArgInputs ==
  {ObjArgs(o) : o \in ArgObjects}
    \cup {StrArgs(r) : r \in RawTexts} \cup {NoArgs(r) : r \in RawTexts}

\* schema.parameters: its "type", the declared type of each property
\* ("none": no such property) and the names in "required"
EmptySchema == [type |-> "", props |-> [k \in ArgKeys |-> "none"], required |-> {}]

StringSchema == [type |-> "string", props |-> [k \in ArgKeys |-> "none"], required |-> {}]

ObjectSchemas ==
  {[type |-> "object", props |-> pr, required |-> rq] :
     pr \in {f \in [ArgKeys -> {"none", "string", "integer"}] :
               \A k \in PathKeys : f[k] # "integer"},
     rq \in SUBSET ArgKeys}

Schemas ==
  {sc \in ObjectSchemas : \A k \in sc.required : sc.props[k] # "none"}
    \cup {EmptySchema, StringSchema}

PropsOf(sc) == {k \in ArgKeys : sc.props[k] # "none"}

KeysOf(o) == {k \in ArgKeys : o[k].t # "none"}

\* LooksLikePathLike
LooksLikePathLike(raw) == raw = "./a"

\* the first of the candidates that is among the keys, "" for none
RECURSIVE FirstIn(_, _)
FirstIn(cands, keys) ==
  IF cands = <<>> THEN ""
  ELSE IF Head(cands) \in keys THEN Head(cands) ELSE FirstIn(Tail(cands), keys)

\* GuessSingleKeyFromParams ("" for std::nullopt); of the candidates
\* command, text, input, content none is among ArgKeys
GuessSingleKeyFromParams(sc, raw) ==
  IF sc.type # "object" THEN ""
  ELSE IF Cardinality(sc.required) = 1 THEN CHOOSE k \in sc.required : TRUE
  ELSE IF Cardinality(PropsOf(sc)) = 1 THEN CHOOSE k \in PropsOf(sc) : TRUE
  ELSE IF LooksLikePathLike(raw) /\ FirstIn(<<"filePath", "path", "uri">>, PropsOf(sc)) # ""
    THEN FirstIn(<<"filePath", "path", "uri">>, PropsOf(sc))
  ELSE ""

\* obj[key] = raw
Wrapped(key, raw) == ObjArgs([EmptyObject EXCEPT ![key] = StrVal(raw)])

\* RunToolLoop: a string (or unparsable text) for a schema that wants a
\* string stays a string, else it is wrapped under the guessed key
RepairString(sc, a) ==
  IF a.kind \notin {"string", "none"} THEN a
  ELSE IF sc.type = "string" THEN StrArgs(a.raw)
  ELSE IF GuessSingleKeyFromParams(sc, a.raw) # ""
    THEN Wrapped(GuessSingleKeyFromParams(sc, a.raw), a.raw)
  ELSE a

\* move_key of NormalizeToolArgsObject
MoveKey(sc, o, dst, srcs) ==
  IF sc.props[dst] = "none" \/ o[dst].t # "none" \/ FirstIn(srcs, KeysOf(o)) = ""
    THEN o
    ELSE LET src == FirstIn(srcs, KeysOf(o))
         IN [o EXCEPT ![dst] = o[src], ![src] = NoVal]

\* NormalizeToolArgsObject, with the aliases that are among ArgKeys
NormalizeToolArgsObject(sc, o) ==
  IF PropsOf(sc) = {} THEN o
  ELSE LET o1 == MoveKey(sc, o, "filePath", <<"path", "uri">>)
           o2 == MoveKey(sc, o1, "path", <<"filePath", "uri">>)
       IN MoveKey(sc, o2, "uri", <<"path", "filePath">>)

\* the arguments RunToolLoop hands to the handler
RepairArgs(sc, a) ==
  LET r == RepairString(sc, a)
  IN IF r.kind = "object" THEN ObjArgs(NormalizeToolArgsObject(sc, r.obj)) ELSE r

\* CheckType for the types told apart
CheckType(t, val) == t = "none" \/ val.t = t

MismatchText(k) ==
  IF k = "n" THEN "field type mismatch: n"
  ELSE IF k = "path" THEN "field type mismatch: path"
  ELSE IF k = "uri" THEN "field type mismatch: uri"
  ELSE "field type mismatch: filePath"

MissingText(k) ==
  IF k = "n" THEN "missing required field: n"
  ELSE IF k = "path" THEN "missing required field: path"
  ELSE IF k = "uri" THEN "missing required field: uri"
  ELSE "missing required field: filePath"

\* the keys in the order nlohmann's object (a std::map) iterates them
KeyOrder == <<"filePath", "n", "path", "uri">>

\* ValidateSchemaLoose: "" for true, else *err
ValidateSchemaLoose(sc, a) ==
  IF sc.type = "" /\ PropsOf(sc) = {} THEN ""
  ELSE IF sc.type = "object" /\ a.kind # "object" THEN "arguments type mismatch"
  ELSE IF sc.type = "string" /\ a.kind # "string" THEN "arguments type mismatch"
  ELSE IF a.kind # "object" THEN ""
  ELSE LET missing == {k \in sc.required : a.obj[k].t = "none"}
           wrong == {k \in PropsOf(sc) :
                       a.obj[k].t # "none" /\ ~CheckType(sc.props[k], a.obj[k])}
       IN IF missing # {} THEN MissingText(FirstIn(KeyOrder, missing))
          ELSE IF wrong # {} THEN MismatchText(FirstIn(KeyOrder, wrong))
          ELSE ""

\* a ToolResult: ok, error and the JSON in result (is it an object, has it
\* a boolean "ok", the text of its "error")
ToolResultOf(ok, error, isobj, hasok, rerror) ==
  [ok |-> ok, error |-> error,
   result |-> [is_object |-> isobj, has_ok |-> hasok, error |-> rerror]]

NoResult == ToolResultOf(TRUE, "", FALSE, FALSE, "")

\* r.ok = false; r.error = e; r.result = {{"ok", false}, {"error", r.error}}
ErrorResult(e) == ToolResultOf(FALSE, e, TRUE, TRUE, e)

\* the results of a handler of tooling.cpp: {"ok": true, ...} or ErrorResult
LocalResults == {ToolResultOf(TRUE, "", TRUE, TRUE, ""), ErrorResult("path is required")}

\* the results of the MCP proxy handler: CallTool failed (with or without a
\* text in *err), or the server's result as it is, with ok = !isError
McpResults ==
  {ErrorResult("mcp: call failed"), ErrorResult("mcp: failed to connect"),
   ToolResultOf(TRUE, "", TRUE, FALSE, ""),
   ToolResultOf(FALSE, "", TRUE, FALSE, "")}

ArgInit ==
  /\ amode \in {"loop", "planner"}
  /\ ahandler \in {"local", "mcp"}
  /\ aschema \in Schemas
  /\ ain \in ArgInputs
  /\ amode = "planner" => ain.kind = "object"
  /\ jargs = ain
  /\ apc = "start"
  /\ aresult = NoResult
  /\ schema_err = ""

ArgFrame == UNCHANGED <<regVars, sessVars, orchVars, streamVars, fileVars, mcpVars, parseVars, moreVars>>

\* RunToolLoop: the repair of the arguments; without arguments the call
\* ends with "invalid tool arguments json"
LoopPrepare ==
  /\ amode = "loop" /\ apc = "start"
  /\ jargs' = RepairArgs(aschema, jargs)
  /\ IF jargs'.kind = "none"
       THEN apc' = "rejected" /\ aresult' = ErrorResult("invalid tool arguments json")
       ELSE apc' = "ready" /\ UNCHANGED aresult
  /\ UNCHANGED <<amode, ahandler, aschema, ain, schema_err>>
  /\ ArgFrame

\* RunPlanner: a step whose arguments fail ValidateSchemaLoose rejects the plan
PlanValidate ==
  /\ amode = "planner" /\ apc = "start"
  /\ schema_err' = ValidateSchemaLoose(aschema, jargs)
  /\ apc' = IF schema_err' # "" THEN "plan_rejected" ELSE "ready"
  /\ UNCHANGED <<amode, ahandler, aschema, ain, jargs, aresult>>
  /\ ArgFrame

\* auto r = (*handler)(c.id, *jargs)
InvokeHandler ==
  /\ apc = "ready"
  /\ apc' = "invoked"
  /\ aresult' \in (IF ahandler = "local" THEN LocalResults ELSE McpResults)
  /\ UNCHANGED <<amode, ahandler, aschema, ain, jargs, schema_err>>
  /\ ArgFrame

\* execute_tool: the handler does not answer within the tool timeout
HandlerTimeout ==
  /\ apc = "ready"
  /\ apc' = "timeout"
  /\ aresult' = ErrorResult("timeout waiting for tool")
  /\ UNCHANGED <<amode, ahandler, aschema, ain, jargs, schema_err>>
  /\ ArgFrame

ArgNext == LoopPrepare \/ PlanValidate \/ InvokeHandler \/ HandlerTimeout

(***************************************************************************)
(* CLIENT-MANAGED TOOL CALLS (src/src/openai_router.cpp): the calls parsed *)
(* from the assistant text go through NormalizeClientManagedToolCalls and  *)
(* BuildOpenAiToolCalls into the answer. An object with one member is      *)
(* written "{" key ":" value "}".                                           *)
(***************************************************************************)
\* a tool of the request: its name and its "parameters" schema
ClientTool(name, sc) == [name |-> name, parameters |-> sc]

\* a request whose tools do not name the called tool
NoClientTool == ClientTool("", EmptySchema)

\* "parameters" with the one property path
OnePathSchema ==
  [type |-> "object",
   props |-> [k \in ArgKeys |-> IF k = "path" THEN "string" ELSE "none"],
   required |-> {}]

\* "parameters" with the properties n and uri, none required
TwoKeySchema ==
  [type |-> "object",
   props |-> [k \in ArgKeys |-> IF k = "n" THEN "integer"
                                 ELSE IF k = "uri" THEN "string" ELSE "none"],
   required |-> {}]

\* "parameters" with the properties filePath, path and n, of which n and
\* path are required
TwoRequiredSchema ==
  [type |-> "object",
   props |-> [k \in ArgKeys |-> IF k = "n" THEN "integer"
                                 ELSE IF k = "uri" THEN "none" ELSE "string"],
   required |-> {"n", "path"}]

\* "parameters" with the property n alone required among n and uri
OneRequiredSchema == [TwoKeySchema EXCEPT !.required = {"n"}]

ClientTools ==
  {NoClientTool} \cup
    {ClientTool("read", sc) :
       sc \in {EmptySchema, OnePathSchema, TwoKeySchema, TwoRequiredSchema, OneRequiredSchema}}

\* find_schema: the tool of that name ("" for nullptr in has)
HasSchema(tools, name) == tools.name # "" /\ tools.name = name

\* guess_single_key ("" for std::nullopt); of the candidates content, text,
\* input, command none is among ArgKeys
GuessSingleKey(params) ==
  IF params.type # "object" THEN ""
  ELSE IF Cardinality(params.required) = 1 THEN CHOOSE k \in params.required : TRUE
  ELSE IF Cardinality(PropsOf(params)) = 1 THEN CHOOSE k \in PropsOf(params) : TRUE
  ELSE FirstIn(<<"filePath", "path", "uri">>, PropsOf(params))

\* obj[key] = raw; obj.dump()
WrapUnder(key, raw) == <<"{", key, ":">> \o DumpString(raw) \o <<"}">>

\* ParseJsonLoose(text) has a value and it is a string
ParsesAsString(text) ==
  /\ ParseJsonLoose(text)
  /\ JsonParses(Trim(text))
  /\ Trim(text)[1] = "q"

\* j->get<std::string>() of a text that parses as a string
StringOf(text) == SubSeq(Trim(text), 2, Len(Trim(text)) - 1)

\* NormalizeClientManagedToolCalls, the body of the loop for one call
NormalizeOne(tools, c) ==
  LET key == IF HasSchema(tools, c.name) THEN GuessSingleKey(tools.parameters) ELSE ""
      raw == IF ParsesAsString(c.arguments_json) THEN StringOf(c.arguments_json)
             ELSE c.arguments_json
  IN IF ParseJsonLoose(c.arguments_json) /\ ~ParsesAsString(c.arguments_json) THEN c
     ELSE IF key # "" THEN [c EXCEPT !.arguments_json = WrapUnder(key, raw)]
     ELSE [c EXCEPT !.arguments_json = DumpString(raw)]

\* NormalizeClientManagedToolCalls
NormalizeClientManagedToolCalls(tools, calls) ==
  [i \in 1..Len(calls) |-> NormalizeOne(tools, calls[i])]

\* BuildOpenAiToolCalls: function.name and function.arguments of each call
BuildOpenAiToolCalls(calls) ==
  [i \in 1..Len(calls) |->
     [name |-> calls[i].name, arguments |-> calls[i].arguments_json]]

NotAnswered == [sent |-> FALSE, calls |-> <<>>]

ParseInit ==
  /\ ptext \in ParseInputs
  /\ presult = NotParsed
  /\ client_tools \in ClientTools
  /\ tool_calls = NotAnswered

ParseFrame == UNCHANGED <<regVars, sessVars, orchVars, streamVars, fileVars, mcpVars, argVars, moreVars>>

\* the orchestrator calls ParseToolCallsFromAssistantText(assistant_text)
ParseCall ==
  /\ ~presult.done
  /\ presult' = [done |-> TRUE,
                 has |-> ParseToolCallsFromAssistantText(ptext).has,
                 calls |-> ParseToolCallsFromAssistantText(ptext).calls]
  /\ UNCHANGED <<ptext, client_tools, tool_calls>>
  /\ ParseFrame

\* chat_completions_handler in client-managed mode: the parsed calls are
\* normalized and returned with finish_reason "tool_calls"
ClientManagedAnswer ==
  /\ presult.done /\ presult.has
  /\ ~tool_calls.sent
  /\ tool_calls' =
       [sent |-> TRUE,
        calls |-> BuildOpenAiToolCalls(
                    NormalizeClientManagedToolCalls(client_tools, presult.calls))]
  /\ UNCHANGED <<ptext, presult, client_tools>>
  /\ ParseFrame

ParseNext == ParseCall \/ ClientManagedAnswer

(***************************************************************************)
(* WORKSPACE CONFINEMENT OF THE FILESYSTEM TOOLS                           *)
(* tooling.cpp NormalizeUnderRoot and main.cpp normalize_under_root.  A    *)
(* string is a sequence of characters, a path a sequence of file names;    *)
(* "%2e" stands for the three characters of a percent-encoded dot.  The    *)
(* file system has no symbolic links, and the alphabet has no ':', so the  *)
(* Windows drive branch is never taken.                                    *)
(***************************************************************************)
MaxDepth == 2

NameW == <<"w">>

NameWx == <<"w", "x">>

NameA == <<"a">>

DotDot == <<".", ".">>

EscDotDot == <<"%2e", "%2e">>

PathNames == {NameW, NameWx, NameA, DotDot, EscDotDot}

\* RUNTIME_WORKSPACE_ROOT when it is set: the directory /w
WorkspaceDir == <<NameW>>

\* std::filesystem::current_path() of the process: the directory /a
CurrentDir == <<NameA>>

\* cfg.workspace_root: a directory, or the empty string
RootOf(dir) == [set |-> TRUE, dir |-> dir]

NoRoot == [set |-> FALSE, dir |-> <<>>]

\* the argument: a plain path, file://<path> or file://localhost/<path>
PathArg(kind, abs, comps) == [kind |-> kind, abs |-> abs, comps |-> comps]

PathArgs ==
  {PathArg(k, a, c) : k \in {"path", "uri"}, a \in BOOLEAN, c \in SeqsUpTo(PathNames, MaxDepth)}
    \cup {PathArg("uri_localhost", FALSE, c) : c \in SeqsUpTo(PathNames, MaxDepth)}

\* the files on disk when the call starts: /w/a and /wx/a
Files0 == {<<NameW, NameA>>, <<NameWx, NameA>>}

BuiltinFsTools == {"read", "write"}

FsTools == BuiltinFsTools \cup {"ide.read_file"}

OutsideText == "path is outside workspace root"

PercentDecode(name) == [i \in 1..Len(name) |-> IF name[i] = "%2e" THEN "." ELSE name[i]]

\* raw after the file:// prefix, "localhost/" and the percent-encoding are
\* taken off; what is left of file://localhost/<path> is a relative path
RawPath(in) ==
  IF in.kind = "path"
    THEN [abs |-> in.abs, comps |-> in.comps]
    ELSE [abs |-> in.kind = "uri" /\ in.abs,
          comps |-> [i \in 1..Len(in.comps) |-> PercentDecode(in.comps[i])]]

\* BuildDefaultToolRegistry falls back to the current directory; main.cpp
\* uses cfg.workspace_root as it is
EffectiveRoot(tool, root) ==
  IF tool \in BuiltinFsTools /\ ~root.set THEN RootOf(CurrentDir) ELSE root

\* p = workspace_root / p for a relative p; without a root the library
\* resolves a relative path against the current directory
UnderRoot(root, raw) ==
  IF raw.abs THEN raw.comps
  ELSE IF root.set THEN root.dir \o raw.comps
  ELSE CurrentDir \o raw.comps

RECURSIVE Normal(_, _)
Normal(done, rest) ==
  IF rest = <<>> THEN done
  ELSE IF Head(rest) = DotDot
    THEN Normal(IF done = <<>> THEN <<>> ELSE SubSeq(done, 1, Len(done) - 1), Tail(rest))
    ELSE Normal(Append(done, Head(rest)), Tail(rest))

\* std::filesystem::weakly_canonical of an absolute path
WeakCanonical(comps) == Normal(<<>>, comps)

RECURSIVE GenericString(_)
GenericString(comps) ==
  IF comps = <<>> THEN <<>>
  ELSE <<"/">> \o Head(comps) \o GenericString(Tail(comps))

\* canon_s.rfind(root_s, 0) == 0
StartsWith(s, r) == Len(r) <= Len(s) /\ SubSeq(s, 1, Len(r)) = r

\* the canonical path the function hands to the tool, or the error
NormalizeUnderRoot(root, in, ec) ==
  LET canon == WeakCanonical(UnderRoot(root, RawPath(in)))
  IN  IF ec THEN [ok |-> FALSE, path |-> <<>>, err |-> "invalid path"]
      ELSE IF root.set /\ WeakCanonical(root.dir) # <<>>
                /\ ~StartsWith(GenericString(canon), GenericString(WeakCanonical(root.dir)))
        THEN [ok |-> FALSE, path |-> <<>>, err |-> OutsideText]
        ELSE [ok |-> TRUE, path |-> canon, err |-> ""]

\* a directory: the root of the file system, the current directory, the
\* workspace, or what holds a file
IsDir(files, p) ==
  \/ p \in {<<>>, CurrentDir, WorkspaceDir}
  \/ \E f \in files : Len(p) < Len(f) /\ SubSeq(f, 1, Len(p)) = p

PathInit ==
  /\ workspace_root \in {RootOf(WorkspaceDir), NoRoot}
  /\ fs_files = Files0
  /\ fs_tool \in FsTools
  /\ fs_in \in PathArgs
  /\ fs_pc = "start"
  /\ fs_error = ""
  /\ fs_touched = {}

PathFrame == UNCHANGED <<regVars, sessVars, orchVars, streamVars, fileVars, mcpVars, parseVars, argVars, authVars, lateVars>>

FsFails(e) ==
  /\ fs_error' = e
  /\ UNCHANGED <<fs_files, fs_touched>>

\* the handler of read, called with a string under "filePath"
ReadTool ==
  /\ fs_pc = "start"
  /\ fs_tool = "read"
  /\ \E ec \in BOOLEAN :
       LET n == NormalizeUnderRoot(EffectiveRoot(fs_tool, workspace_root), fs_in, ec)
       IN  IF ~n.ok THEN FsFails(n.err)
           ELSE IF n.path \in fs_files
             THEN /\ fs_touched' = fs_touched \cup {n.path}
                  /\ fs_error' = ""
                  /\ UNCHANGED fs_files
           ELSE IF IsDir(fs_files, n.path) THEN FsFails("")
           ELSE FsFails("file not found")
  /\ fs_pc' = "done"
  /\ UNCHANGED <<workspace_root, fs_tool, fs_in>>
  /\ PathFrame

\* the handler of write, called with strings under "filePath" and "content"
WriteTool ==
  /\ fs_pc = "start"
  /\ fs_tool = "write"
  /\ \E ec \in BOOLEAN :
       LET n == NormalizeUnderRoot(EffectiveRoot(fs_tool, workspace_root), fs_in, ec)
       IN  IF ~n.ok THEN FsFails(n.err)
           ELSE IF IsDir(fs_files, n.path) THEN FsFails("failed to open file for writing")
           ELSE /\ fs_files' = fs_files \cup {n.path}
                /\ fs_touched' = fs_touched \cup {n.path}
                /\ fs_error' = ""
  /\ fs_pc' = "done"
  /\ UNCHANGED <<workspace_root, fs_tool, fs_in>>
  /\ PathFrame

\* the handler of ide.read_file, called with a string under "path": the
\* remote fs.read_file reads the normalized path, or the call fails
IdeReadFile ==
  /\ fs_pc = "start"
  /\ fs_tool = "ide.read_file"
  /\ \E ec \in BOOLEAN, reached \in BOOLEAN :
       LET n == NormalizeUnderRoot(EffectiveRoot(fs_tool, workspace_root), fs_in, ec)
       IN  IF ~n.ok THEN FsFails(n.err)
           ELSE IF reached /\ n.path \in fs_files
             THEN /\ fs_touched' = fs_touched \cup {n.path}
                  /\ fs_error' = ""
                  /\ UNCHANGED fs_files
           ELSE FsFails("mcp: call failed")
  /\ fs_pc' = "done"
  /\ UNCHANGED <<workspace_root, fs_tool, fs_in>>
  /\ PathFrame

PathNext == ReadTool \/ WriteTool \/ IdeReadFile

(***************************************************************************)
(* THE AUTH HEADERS OF A REQUEST                                           *)
(* config.cpp ScopedRequestAuthHeaders over the thread_local               *)
(* g_request_auth_headers, the scopes openai_router.cpp opens on the       *)
(* request thread and in the helper threads of run_chat_once and           *)
(* execute_tool, and the two kinds of upstream client: the provider        *)
(* adapters' MakeClient and McpClient's MakeClient.                        *)
(***************************************************************************)
RequestThreads == {1, 2}

HelperOf(t) == t + 10

HelperThreads == {HelperOf(t) : t \in RequestThreads}

AuthThreads == RequestThreads \cup HelperThreads

OwnerOf(h) == h - 10

\* ExtractUpstreamAuthHeaders(req): the empty list, or the caller's token
NoHeaders == ""

HeaderLists == {NoHeaders, "Bearer A", "Bearer B"}

NoJob == [kind |-> "none", of |-> "", orphan |-> FALSE]

\* what a helper thread was started with: its lambda, the headers of the
\* request it works for (the copy a by-value capture holds), and whether
\* that request has returned since
Job(kind, of) == [kind |-> kind, of |-> of, orphan |-> FALSE]

NoCall == [kind |-> "none", of |-> NoHeaders, saw |-> NoHeaders]

\* one upstream HTTP call: made for a request with headers `of`, it carried `saw`
Call(kind, of, saw) == [kind |-> kind, of |-> of, saw |-> saw]

\* OpenAiCompatibleHttpProvider / OllamaProvider MakeClient: timeouts only
ProviderClientHeaders(binding) == NoHeaders

\* mcp_client.cpp MakeClient: CurrentRequestAuthHeaders() as default headers
McpClientHeaders(binding) == binding

AuthInit ==
  /\ g_request_auth_headers = [t \in AuthThreads |-> NoHeaders]
  /\ prev_ = [t \in AuthThreads |-> NoHeaders]
  /\ auth_headers = [t \in RequestThreads |-> NoHeaders]
  /\ auth_alive = [t \in RequestThreads |-> FALSE]
  /\ hpc = [t \in AuthThreads |-> "idle"]
  /\ hjob = [t \in HelperThreads |-> NoJob]
  /\ upstream = NoCall

AuthFrame == UNCHANGED <<regVars, sessVars, orchVars, streamVars, fileVars, mcpVars, parseVars, argVars, pathVars, lateVars>>

\* the chat handler starts on a server thread: auth_headers is extracted
RequestArrives(t, h) ==
  /\ hpc[t] = "idle"
  /\ auth_headers' = [auth_headers EXCEPT ![t] = h]
  /\ auth_alive' = [auth_alive EXCEPT ![t] = TRUE]
  /\ hpc' = [hpc EXCEPT ![t] = "handler"]
  /\ UNCHANGED <<g_request_auth_headers, prev_, hjob, upstream>>
  /\ AuthFrame

\* ScopedRequestAuthHeaders scope(auth_headers) on the request thread
ScopeEnter(t) ==
  /\ hpc[t] = "handler"
  /\ prev_' = [prev_ EXCEPT ![t] = g_request_auth_headers[t]]
  /\ g_request_auth_headers' = [g_request_auth_headers EXCEPT ![t] = auth_headers[t]]
  /\ hpc' = [hpc EXCEPT ![t] = "scoped"]
  /\ UNCHANGED <<auth_headers, auth_alive, hjob, upstream>>
  /\ AuthFrame

\* provider->ChatOnce / ChatStream inside the scope, on the request thread
ProviderCall(t) ==
  /\ hpc[t] = "scoped"
  /\ upstream' = Call("provider", auth_headers[t], ProviderClientHeaders(g_request_auth_headers[t]))
  /\ UNCHANGED <<g_request_auth_headers, prev_, auth_headers, auth_alive, hpc, hjob>>
  /\ AuthFrame

\* an MCP tool handler run by RunToolLoop inside the scope
McpCall(t) ==
  /\ hpc[t] = "scoped"
  /\ upstream' = Call("mcp", auth_headers[t], McpClientHeaders(g_request_auth_headers[t]))
  /\ UNCHANGED <<g_request_auth_headers, prev_, auth_headers, auth_alive, hpc, hjob>>
  /\ AuthFrame

\* ~ScopedRequestAuthHeaders on the request thread
ScopeExit(t) ==
  /\ hpc[t] = "scoped"
  /\ g_request_auth_headers' = [g_request_auth_headers EXCEPT ![t] = prev_[t]]
  /\ prev_' = [prev_ EXCEPT ![t] = NoHeaders]
  /\ hpc' = [hpc EXCEPT ![t] = "handler"]
  /\ UNCHANGED <<auth_headers, auth_alive, hjob, upstream>>
  /\ AuthFrame

\* the streaming loop starts a detached thread: run_chat_once captures
\* auth_headers by value, execute_tool by reference
StartScopedThread(t, kind) ==
  /\ hpc[t] = "handler"
  /\ hpc[HelperOf(t)] = "idle"
  /\ hjob' = [hjob EXCEPT ![HelperOf(t)] = Job(kind, auth_headers[t])]
  /\ hpc' = [hpc EXCEPT ![HelperOf(t)] = "spawned"]
  /\ UNCHANGED <<g_request_auth_headers, prev_, auth_headers, auth_alive, upstream>>
  /\ AuthFrame

\* does the auth_headers the helper refers to still exist
Dangling(h) == hjob[h].orphan

\* what the helper's scope is constructed from: its copy, the object it
\* refers to, or whatever lies where that object was
CapturedHeaders(h) ==
  IF hjob[h].kind = "chat" THEN {hjob[h].of}
  ELSE IF Dangling(h) THEN HeaderLists
  ELSE {auth_headers[OwnerOf(h)]}

\* ScopedRequestAuthHeaders scope(auth_headers) at the start of the thread
HelperScopeEnter(h) ==
  /\ hpc[h] = "spawned"
  /\ \E c \in CapturedHeaders(h) :
       g_request_auth_headers' = [g_request_auth_headers EXCEPT ![h] = c]
  /\ prev_' = [prev_ EXCEPT ![h] = g_request_auth_headers[h]]
  /\ hpc' = [hpc EXCEPT ![h] = "scoped"]
  /\ UNCHANGED <<auth_headers, auth_alive, hjob, upstream>>
  /\ AuthFrame

\* provider->ChatOnce in run_chat_once's thread, the MCP proxy handler in
\* execute_tool's thread
HelperCall(h) ==
  /\ hpc[h] = "scoped"
  /\ upstream' =
       IF hjob[h].kind = "chat"
         THEN Call("provider", hjob[h].of, ProviderClientHeaders(g_request_auth_headers[h]))
         ELSE Call("mcp", hjob[h].of, McpClientHeaders(g_request_auth_headers[h]))
  /\ hpc' = [hpc EXCEPT ![h] = "called"]
  /\ UNCHANGED <<g_request_auth_headers, prev_, auth_headers, auth_alive, hjob>>
  /\ AuthFrame

\* the lambda returns: ~ScopedRequestAuthHeaders, and the thread ends
HelperScopeExit(h) ==
  /\ hpc[h] = "called"
  /\ g_request_auth_headers' = [g_request_auth_headers EXCEPT ![h] = prev_[h]]
  /\ hpc' = [hpc EXCEPT ![h] = "idle"]
  /\ hjob' = [hjob EXCEPT ![h] = NoJob]
  /\ prev_' = [prev_ EXCEPT ![h] = NoHeaders]
  /\ UNCHANGED <<auth_headers, auth_alive, upstream>>
  /\ AuthFrame

\* the handler or the content provider returns; a helper that was timed
\* out is left running
RequestEnds(t) ==
  /\ hpc[t] = "handler"
  /\ hpc' = [hpc EXCEPT ![t] = "idle"]
  /\ auth_alive' = [auth_alive EXCEPT ![t] = FALSE]
  /\ auth_headers' = [auth_headers EXCEPT ![t] = NoHeaders]
  /\ hjob' = [hjob EXCEPT ![HelperOf(t)] = IF @ = NoJob THEN @ ELSE [@ EXCEPT !.orphan = TRUE]]
  /\ UNCHANGED <<g_request_auth_headers, prev_, upstream>>
  /\ AuthFrame

AuthNext ==
  \/ \E t \in RequestThreads, h \in HeaderLists : RequestArrives(t, h)
  \/ \E t \in RequestThreads : ScopeEnter(t)
  \/ \E t \in RequestThreads : ProviderCall(t)
  \/ \E t \in RequestThreads : McpCall(t)
  \/ \E t \in RequestThreads : ScopeExit(t)
  \/ \E t \in RequestThreads, kind \in {"chat", "tool"} : StartScopedThread(t, kind)
  \/ \E h \in HelperThreads : HelperScopeEnter(h)
  \/ \E h \in HelperThreads : HelperCall(h)
  \/ \E h \in HelperThreads : HelperScopeExit(h)
  \/ \E t \in RequestThreads : RequestEnds(t)

(***************************************************************************)
(* TOOL-CALL DOCUMENTS: llama_agent::ToolCallParser::parse                 *)
(* (src/extern/llama_cpp_agent/src/tool_call_parser.cpp) and what          *)
(* ParseToolCallsFromAssistantText (src/src/tooling.cpp) makes of its      *)
(* result, for an assistant text that is the JSON {"tool_calls":[...]}.    *)
(***************************************************************************)
\* the most items of a "tool_calls" array
MaxItems == 2

\* JSON values: a number, and an object with no member or with one
JNum == [t |-> "num", m |-> <<>>]

JObj(members) == [t |-> "obj", m |-> members]

\* the objects an item has as arguments: {}, {"k":1}, {"k":{}}
ObjectValues == {JObj(<<>>), JObj(<<JNum>>), JObj(<<JObj(<<>>)>>)}

\* nlohmann::json::dump() in the tokens of the parsing model
RECURSIVE DumpValue(_)
DumpValue(v) ==
  IF v.t = "num" THEN <<"1">>
  ELSE IF v.m = <<>> THEN <<"{", "}">>
  ELSE <<"{">> \o DumpValue(v.m[1]) \o <<"}">>

\* nlohmann::json::parse of a dumped value
RECURSIVE ParseValue(_)
ParseValue(text) ==
  IF text = <<"1">> THEN JNum
  ELSE IF Len(text) = 2 THEN JObj(<<>>)
  ELSE JObj(<<ParseValue(SubSeq(text, 2, Len(text) - 1))>>)

\* an item of the array. shape "direct" is {"id", "name", "arguments"},
\* shape "function" is {"id", "function": {"name", "arguments"}}; type ""
\* stands for an item without "type"
Item(id, type, shape, name, arguments) ==
  [id |-> id, type |-> type, shape |-> shape, name |-> name, arguments |-> arguments]

\* items with a non-empty id, a non-empty name and object arguments, of
\* type "function" where they have a type
PlainItems ==
  {Item(id, type, shape, name, a) :
     id \in {"x", "y"}, type \in {"", "function"}, shape \in {"direct", "function"},
     name \in {"t", "u"}, a \in ObjectValues}

\* items with an empty id, another type, or an empty name
OddItems ==
  {Item("", "", "direct", "t", JObj(<<>>)),
   Item("x", "tool_use", "direct", "t", JObj(<<JNum>>)),
   Item("y", "function", "function", "", JObj(<<>>))}

DocItems == PlainItems \cup OddItems

\* llama_agent::ToolCall::isValid
isValid(call) == call.id # "" /\ call.type = "function" /\ call.functionName # ""

\* parseSingleToolCall without the default of the type
parseSingleToolCall_NoDefaultType(item) ==
  [id |-> item.id,
   type |-> item.type,
   functionName |-> item.name,
   arguments |-> item.arguments]

\* ToolCallParser::parseSingleToolCall before its test of isValid: the id,
\* the type ("function" by default), the name and the arguments from
\* "function" or from the item itself
parseSingleToolCall(item) ==
  [id |-> item.id,
   type |-> IF item.type = "" THEN "function" ELSE item.type,
   functionName |-> item.name,
   arguments |-> item.arguments]

\* ToolCallParser::parseFromJson: the valid calls in the order of the array
RECURSIVE parseFromJson(_)
parseFromJson(items) ==
  IF items = <<>> THEN <<>>
  ELSE (IF isValid(parseSingleToolCall(Head(items)))
          THEN <<parseSingleToolCall(Head(items))>> ELSE <<>>)
         \o parseFromJson(Tail(items))

\* a runtime::ToolCall
ToolCallOf(id, name, arguments_json) ==
  [id |-> id, name |-> name, arguments_json |-> arguments_json]

\* ParseToolCallsFromAssistantText, lines 1937-1957: the calls made of the
\* parser's result (the arguments are objects, so they are dumped)
RECURSIVE FromToolCallParser(_)
FromToolCallParser(parsed) ==
  IF parsed = <<>> THEN <<>>
  ELSE LET c == Head(parsed)
       IN (IF c.functionName # ""
             THEN <<ToolCallOf(c.id, c.functionName, DumpValue(c.arguments))>>
             ELSE <<>>)
            \o FromToolCallParser(Tail(parsed))

\* make_call of ExtractToolCallsFromJson for an item of the array: the id
\* is a string, the name and the arguments are found in both shapes
RECURSIVE MakeCallsWithId(_)
MakeCallsWithId(items) ==
  IF items = <<>> THEN <<>>
  ELSE LET item == Head(items)
       IN (IF item.name # ""
             THEN <<ToolCallOf(item.id, item.name, DumpValue(item.arguments))>>
             ELSE <<>>)
            \o MakeCallsWithId(Tail(items))

\* ParseToolCallsFromAssistantText for the text {"tool_calls": items}: the
\* parser's calls if there are any, else those of ExtractToolCallsFromJson
\* (the root has neither name nor arguments), else std::nullopt
ParseToolCallsDocument(items) ==
  IF FromToolCallParser(parseFromJson(items)) # <<>>
    THEN SomeCalls(FromToolCallParser(parseFromJson(items)))
  ELSE IF MakeCallsWithId(items) # <<>> THEN SomeCalls(MakeCallsWithId(items))
  ELSE NoCalls

DocInit ==
  /\ tc_doc \in SeqsUpTo(DocItems, MaxItems)
  /\ tc_out = NotParsed

DocFrame ==
  UNCHANGED <<regVars, sessVars, orchVars, streamVars, fileVars, mcpVars, parseVars,
              argVars, pathVars, authVars, discVars, waitVars>>

\* the orchestrator calls ParseToolCallsFromAssistantText on the document
ParseDocument ==
  /\ ~tc_out.done
  /\ tc_out' = [done |-> TRUE,
                has |-> ParseToolCallsDocument(tc_doc).has,
                calls |-> ParseToolCallsDocument(tc_doc).calls]
  /\ UNCHANGED tc_doc
  /\ DocFrame

DocNext == ParseDocument

(***************************************************************************)
(* MCP TOOL DISCOVERY (src/src/main.cpp): the MCP endpoints are            *)
(* initialized, refresh_mcp_tools registers their tools, the ide.* tools   *)
(* are registered, and POST /internal/refresh_mcp_tools refreshes. A name  *)
(* is a sequence of tokens; "mcp" N "." heads a prefixed name.             *)
(***************************************************************************)
\* the number of configured MCP endpoints (cfg.mcp_hosts)
MaxHosts == 2

\* the most refreshes after start
MaxRefreshes == 2

\* the most tools a server lists
MaxListed == 2

Hosts == 1..MaxHosts

\* the names the servers give their tools
RemoteNames == {<<"read">>, <<"search">>, <<"ide.read_file">>}

\* of the tools of BuildDefaultToolRegistry, the one a remote name meets
BuiltinsAtStart == {<<"read">>}

\* of the ide.* tools main() registers after discovery, the one a remote
\* name meets
IdeTools == {<<"ide.read_file">>}

\* "mcp" + std::to_string(i + 1) + "." + exposed_name
Prefixed(n, name) == <<"mcp", ToString(n), ".">> \o name

AllNames ==
  RemoteNames \cup BuiltinsAtStart \cup IdeTools
    \cup {Prefixed(n, r) : n \in Hosts, r \in RemoteNames}

NoTool == [kind |-> "none", host |-> 0, name |-> <<>>]

Builtin(name) == [kind |-> "builtin", host |-> 0, name |-> name]

\* the tool name of the endpoint configured at position host
Remote(host, name) == [kind |-> "mcp", host |-> host, name |-> name]

\* what ListTools of a server returns: an error, or tools of different names
ListOutcome(failed, tools) == [err |-> failed, tools |-> tools]

ListOutcomes ==
  {ListOutcome(TRUE, <<>>)} \cup
    {ListOutcome(FALSE, l) :
       l \in {q \in SeqsUpTo(RemoteNames, MaxListed) :
                \A i, j \in 1..Len(q) : i # j => q[i] # q[j]}}

\* the endpoints that can be in mcp_servers: in the order of the hosts
ServerLists ==
  {q \in SeqsUpTo(Hosts, MaxHosts) : \A i, j \in 1..Len(q) : i < j => q[i] < q[j]}

\* ToolRegistry::HasTool on a registry
RegistryHasTool(reg, name) == reg.handlers[name] # NoTool

\* ToolRegistry::RegisterTool: schemas_[name] and handlers_[name] are assigned
RegisterTool(reg, name, tool) ==
  [handlers |-> [reg.handlers EXCEPT ![name] = tool],
   replaced |-> reg.replaced \cup
                  (IF reg.handlers[name] \notin {NoTool, tool}
                     THEN {[name |-> name, was |-> reg.handlers[name], by |-> tool]}
                     ELSE {})]

\* refresh_mcp_tools, lines 385-420: one listed tool t of the server at
\* position i of servers
RefreshTool(st, servers, i, t) ==
  LET exposed_name ==
        IF st.maps[i][t] # <<>> THEN st.maps[i][t]
        ELSE IF RegistryHasTool(st.reg, t) THEN Prefixed(i, t)
        ELSE t
  IN [maps |-> [st.maps EXCEPT ![i][t] = exposed_name],
      reg |-> RegisterTool(st.reg, exposed_name, Remote(servers[i], t))]

\* refresh_mcp_tools, line 385: the tools of one list in their order
RECURSIVE RefreshList(_, _, _, _)
RefreshList(st, servers, i, tools) ==
  IF tools = <<>> THEN st
  ELSE RefreshList(RefreshTool(st, servers, i, Head(tools)), servers, i, Tail(tools))

\* refresh_mcp_tools, line 377: the servers from position i on; a server
\* whose ListTools failed is passed over
RECURSIVE RefreshFrom(_, _, _, _)
RefreshFrom(st, servers, i, lists) ==
  IF i > Len(servers) THEN st
  ELSE RefreshFrom(IF lists[i].err THEN st
                   ELSE RefreshList(st, servers, i, lists[i].tools),
                   servers, i + 1, lists)

refresh_mcp_tools(st, servers, lists) == RefreshFrom(st, servers, 1, lists)

NoNames == [r \in RemoteNames |-> <<>>]

\* the registry main() starts with
DiscInit ==
  /\ mcp_servers = <<>>
  /\ mcp_name_maps = <<>>
  /\ handlers_ = [n \in AllNames |-> IF n \in BuiltinsAtStart THEN Builtin(n) ELSE NoTool]
  /\ replaced = {}
  /\ dpc = "boot"
  /\ refreshes = 0

DiscIdle == DiscInit

DiscFrame ==
  UNCHANGED <<regVars, sessVars, orchVars, streamVars, fileVars, mcpVars, parseVars,
              argVars, pathVars, authVars, docVars, waitVars>>

\* main(), lines 426-446: the endpoints that answer Initialize are kept,
\* each with an empty name map, and refresh_mcp_tools() runs
McpStartup ==
  /\ dpc = "boot"
  /\ \E servers \in ServerLists :
       \E lists \in [1..Len(servers) -> ListOutcomes] :
         LET st == refresh_mcp_tools(
                     [maps |-> [i \in 1..Len(servers) |-> NoNames],
                      reg |-> [handlers |-> handlers_, replaced |-> replaced]],
                     servers, lists)
         IN /\ mcp_servers' = servers
            /\ mcp_name_maps' = st.maps
            /\ handlers_' = st.reg.handlers
            /\ replaced' = st.reg.replaced
  /\ dpc' = "ide"
  /\ UNCHANGED refreshes
  /\ DiscFrame

\* a registry with the tools of a set registered as built-in, one by one
RECURSIVE RegisterAll(_, _)
RegisterAll(reg, names) ==
  IF names = {} THEN reg
  ELSE LET n == CHOOSE x \in names : TRUE
       IN RegisterAll(RegisterTool(reg, n, Builtin(n)), names \ {n})

\* main(), lines 458-706: with an MCP server at hand the ide.* tools are
\* registered; then the server listens
RegisterIdeTools ==
  /\ dpc = "ide"
  /\ LET reg == IF mcp_servers # <<>>
                  THEN RegisterAll([handlers |-> handlers_, replaced |-> replaced], IdeTools)
                  ELSE [handlers |-> handlers_, replaced |-> replaced]
     IN /\ handlers_' = reg.handlers
        /\ replaced' = reg.replaced
  /\ dpc' = "serving"
  /\ UNCHANGED <<mcp_servers, mcp_name_maps, refreshes>>
  /\ DiscFrame

\* POST /internal/refresh_mcp_tools
RefreshMcpTools ==
  /\ dpc = "serving"
  /\ refreshes < MaxRefreshes
  /\ \E lists \in [1..Len(mcp_servers) -> ListOutcomes] :
       LET st == refresh_mcp_tools(
                   [maps |-> mcp_name_maps,
                    reg |-> [handlers |-> handlers_, replaced |-> replaced]],
                   mcp_servers, lists)
       IN /\ mcp_name_maps' = st.maps
          /\ handlers_' = st.reg.handlers
          /\ replaced' = st.reg.replaced
  /\ refreshes' = refreshes + 1
  /\ UNCHANGED <<mcp_servers, dpc>>
  /\ DiscFrame

DiscNext == McpStartup \/ RegisterIdeTools \/ RefreshMcpTools

(***************************************************************************)
(* WAITING FOR A HELPER (src/src/openai_router.cpp, wait_ready): the       *)
(* request task polls the future every 250 ms and writes keepalive and     *)
(* progress comments. Time is in milliseconds; wait_for returns on time    *)
(* and a write takes no time.                                              *)
(***************************************************************************)
\* how long the clock of the model runs
MaxTime == 4000

\* fut.wait_for(std::chrono::milliseconds(250))
PollMs == 250

\* std::chrono::seconds(1) in maybe_keepalive
KeepaliveMs == 1000

\* the values of RUNTIME_STREAM_PROGRESS_MS tried (2000 is the default)
ProgressChoices == {0, 100, 300, 2000}

\* the timeouts tried, in seconds (0: none)
TimeoutChoices == {0, 3}

\* the clock is looked at twice in a polling interval
Elapsed == PollMs \div 2

\* maybe_keepalive writes although a second has not passed
KeepaliveDue_Late(t, last) == t - last > KeepaliveMs

\* maybe_keepalive, line 2000: a second has passed since the last one
KeepaliveDue(t, last) == t - last >= KeepaliveMs

\* maybe_progress, lines 1991-1993: progress comments are wanted and
\* progress_ms has passed since the last one
ProgressDue(t, last, ms) == ms > 0 /\ t - last >= ms

\* wait_ready, lines 2011-2014: the timeout of the wait has passed
WaitTimedOut(t, start, secs) == secs > 0 /\ t - start >= secs * 1000

WaitInit ==
  /\ clock = 0
  /\ last_keepalive = 0
  /\ last_progress = 0
  /\ progress_ms \in ProgressChoices
  /\ timeout_s = 0
  /\ wstart = 0
  /\ slept = 0
  /\ wpc = "working"
  /\ kprev = -1
  /\ pprev = -1

WaitIdle ==
  /\ clock = 0
  /\ last_keepalive = 0
  /\ last_progress = 0
  /\ progress_ms = 2000
  /\ timeout_s = 0
  /\ wstart = 0
  /\ slept = 0
  /\ wpc = "working"
  /\ kprev = -1
  /\ pprev = -1

WaitFrame ==
  UNCHANGED <<regVars, sessVars, orchVars, streamVars, fileVars, mcpVars, parseVars,
              argVars, pathVars, authVars, docVars, discVars>>

\* run_chat_once / execute_tool call wait_ready(fut, timeout_s)
WaitBegin ==
  /\ wpc = "working"
  /\ \E secs \in TimeoutChoices : timeout_s' = secs
  /\ wstart' = clock
  /\ slept' = 0
  /\ wpc' = "waiting"
  /\ kprev' = -1
  /\ pprev' = -1
  /\ UNCHANGED <<clock, last_keepalive, last_progress, progress_ms>>
  /\ WaitFrame

\* time passes: the request task works, or it is blocked in fut.wait_for
\* for at most 250 ms
TimePasses ==
  /\ clock < MaxTime
  /\ \/ wpc = "working" /\ UNCHANGED slept
     \/ wpc = "waiting" /\ slept < PollMs /\ slept' = slept + Elapsed
  /\ clock' = clock + Elapsed
  /\ UNCHANGED <<last_keepalive, last_progress, progress_ms, timeout_s, wstart, wpc,
                 kprev, pprev>>
  /\ WaitFrame

\* the helper fulfils the promise: wait_for returns ready and wait_ready
\* returns Ready
HelperReady ==
  /\ wpc = "waiting"
  /\ wpc' = "working"
  /\ UNCHANGED <<clock, last_keepalive, last_progress, progress_ms, timeout_s, wstart,
                 slept, kprev, pprev>>
  /\ WaitFrame

\* wait_ready, lines 2008-2015: wait_for timed out; maybe_keepalive, then
\* maybe_progress, then the timeout of the wait. A write that fails (the
\* client is gone) ends the wait with Disconnected.
Wakeup ==
  /\ wpc = "waiting"
  /\ slept = PollMs
  /\ \E up \in BOOLEAN :
       LET k == KeepaliveDue(clock, last_keepalive)
           g == ProgressDue(clock, last_progress, progress_ms)
       IN /\ last_keepalive' = IF k THEN clock ELSE last_keepalive
          /\ kprev' = IF k /\ up THEN clock ELSE kprev
          /\ IF k /\ ~up
               THEN wpc' = "gone" /\ UNCHANGED <<last_progress, pprev>>
               ELSE /\ last_progress' = IF g THEN clock ELSE last_progress
                    /\ pprev' = IF g /\ up THEN clock ELSE pprev
                    /\ wpc' = IF g /\ ~up THEN "gone"
                              ELSE IF WaitTimedOut(clock, wstart, timeout_s) THEN "working"
                              ELSE "waiting"
  /\ slept' = 0
  /\ UNCHANGED <<clock, progress_ms, timeout_s, wstart>>
  /\ WaitFrame

WaitNext == WaitBegin \/ TimePasses \/ HelperReady \/ Wakeup

\* the state after construction of the components a specification leaves alone
SessIdle ==
  /\ sessions_ = [sid \in Sids |-> EmptySession]
  /\ hasStore = FALSE
  /\ store_ = [sid \in Sids |-> EmptySession]
  /\ smu = 0
  /\ spc = [t \in Threads |-> "idle"]
  /\ sop = [t \in Threads |-> NoOp]
  /\ sloc = [t \in Threads |-> EmptySession]
  /\ sops = [t \in Threads |-> 0]
  /\ lastTurn = [sid \in Sids |-> NoTurn]

OrchIdle ==
  /\ req = [path |-> "json", planner |-> FALSE, max_steps |-> 6,
            max_tool_calls |-> 16,
            max_plan_steps |-> PlannerDefaults.max_plan_steps,
            max_plan_rewrites |-> PlannerDefaults.max_plan_rewrites,
            use_server_history |-> FALSE]
  /\ loc = LocZero
  /\ loop = ToolLoopResult0
  /\ err = ""
  /\ lpc = "start"
  /\ http = 0
  /\ appended = <<>>

StreamIdle ==
  /\ events = <<>>
  /\ connected = TRUE
  /\ outq = <<>>
  /\ helper = "none"
  /\ detached = NoDetached

FileIdle ==
  /\ disk = [path |-> NoFile, tmp |-> NoFile]
  /\ fd = [t \in Threads |-> "none"]

McpIdle ==
  /\ in_flight_ = 0
  /\ max_in_flight_ = kDefaultMaxInFlight
  /\ next_id_ = 1
  /\ mpc = [t \in McpCallers |-> "idle"]
  /\ mid = [t \in McpCallers |-> 0]
  /\ merr = [t \in McpCallers |-> ""]
  /\ mcalls = [t \in McpCallers |-> 0]
  /\ posted = 0

ParseIdle ==
  /\ ptext = NoText
  /\ presult = NotParsed
  /\ client_tools = NoClientTool
  /\ tool_calls = NotAnswered

ArgIdle ==
  /\ amode = "loop"
  /\ ahandler = "local"
  /\ aschema = EmptySchema
  /\ ain = NoArgs("")
  /\ jargs = NoArgs("")
  /\ apc = "start"
  /\ aresult = NoResult
  /\ schema_err = ""

PathIdle ==
  /\ workspace_root = RootOf(WorkspaceDir)
  /\ fs_files = {}
  /\ fs_tool = "read"
  /\ fs_in = PathArg("path", FALSE, <<>>)
  /\ fs_pc = "start"
  /\ fs_error = ""
  /\ fs_touched = {}

AuthIdle ==
  /\ g_request_auth_headers = [t \in AuthThreads |-> NoHeaders]
  /\ prev_ = [t \in AuthThreads |-> NoHeaders]
  /\ auth_headers = [t \in RequestThreads |-> NoHeaders]
  /\ auth_alive = [t \in RequestThreads |-> FALSE]
  /\ hpc = [t \in AuthThreads |-> "idle"]
  /\ hjob = [t \in HelperThreads |-> NoJob]
  /\ upstream = NoCall

DocIdle ==
  /\ tc_doc = <<>>
  /\ tc_out = NotParsed

LateIdle == DocIdle /\ DiscIdle /\ WaitIdle

MoreIdle == PathIdle /\ AuthIdle /\ LateIdle

ExtIdle == FileIdle /\ McpIdle /\ ParseIdle /\ ArgIdle /\ MoreIdle

InitRegistry == RegInit /\ SessIdle /\ OrchIdle /\ StreamIdle /\ ExtIdle

SpecRegistry == InitRegistry /\ [][RegNext]_vars

\* The registry under the scheduling the claim on lock order assumes. A
\* thread blocked in std::mutex::lock on mu_ gets the mutex if it is released
\* again and again (ActivateEnter). A thread inside Activate holds mu_, so
\* only the generation calls of requests already past Activate compete for
\* the adapter mutex: Stop() and Start() go on once it stays free
\* (ActivateStop, ActivateStart), as does a thread that is not blocked
\* (ActivateCommit), and a generation call in progress terminates (ChatEnd).
\* New requests and new generation calls need not come.
RegFairness ==
  \A t \in Threads :
    /\ SF_vars(ActivateEnter(t))
    /\ WF_vars(ActivateStop(t))
    /\ WF_vars(ActivateStart(t))
    /\ WF_vars(ActivateCommit(t))
    /\ WF_vars(ChatEnd(t))

SpecRegistryFair == SpecRegistry /\ RegFairness

InitSession == SessInit /\ RegInit /\ OrchIdle /\ StreamIdle /\ ExtIdle

SpecSession == InitSession /\ [][SessNext]_vars

InitLoop == LoopInit /\ RegInit /\ SessIdle /\ StreamIdle /\ ExtIdle

SpecLoop == InitLoop /\ [][LoopNext]_vars

InitStream == StreamInit /\ RegInit /\ SessIdle /\ ExtIdle

SpecStream == InitStream /\ [][StreamNext]_vars

InitFileStore == FileInit /\ RegInit /\ OrchIdle /\ StreamIdle /\ McpIdle /\ ParseIdle /\ ArgIdle /\ MoreIdle

InitMcp == McpInit /\ RegInit /\ SessIdle /\ OrchIdle /\ StreamIdle /\ FileIdle /\ ParseIdle /\ ArgIdle /\ MoreIdle

CoreIdle == RegInit /\ SessIdle /\ OrchIdle /\ StreamIdle

InitParse == ParseInit /\ CoreIdle /\ FileIdle /\ McpIdle /\ ArgIdle /\ MoreIdle

InitArgs == ArgInit /\ CoreIdle /\ FileIdle /\ McpIdle /\ ParseIdle /\ MoreIdle

SpecArgs == InitArgs /\ [][ArgNext]_vars

OldIdle == FileIdle /\ McpIdle /\ ParseIdle /\ ArgIdle

InitPaths == PathInit /\ CoreIdle /\ OldIdle /\ AuthIdle /\ LateIdle

SpecPaths == InitPaths /\ [][PathNext]_vars

InitAuth == AuthInit /\ CoreIdle /\ OldIdle /\ PathIdle /\ LateIdle

SpecAuth == InitAuth /\ [][AuthNext]_vars

InitDoc == DocInit /\ CoreIdle /\ OldIdle /\ PathIdle /\ AuthIdle /\ DiscIdle /\ WaitIdle

InitDisc == DiscInit /\ CoreIdle /\ OldIdle /\ PathIdle /\ AuthIdle /\ DocIdle /\ WaitIdle

InitWait == WaitInit /\ CoreIdle /\ OldIdle /\ PathIdle /\ AuthIdle /\ DocIdle /\ DiscIdle

SpecWait == InitWait /\ [][WaitNext]_vars

SpecDisc == InitDisc /\ [][DiscNext]_vars

SpecDoc == InitDoc /\ [][DocNext]_vars


SpecParse == InitParse /\ [][ParseNext]_vars

SpecMcp == InitMcp /\ [][McpNext]_vars

SpecFileStore == InitFileStore /\ [][FileNext]_vars


(***************************************************************************)
(* Claims about the provider registry.                                     *)
(***************************************************************************)
InActivateHooks(t) == rpc[t] \in {"act_stop", "act_start", "act_commit"}

\* C3: activation is serialized. The Stop()/Start() hooks of an Activate run
\* only while that call holds the registry mutex, so hooks of two calls never
\* interleave; the provider whose Start() was called last is either the one
\* being activated by the call still in progress, or, once that call has
\* returned, the active provider n: between the return of Activate(n) and
\* the next Activate(m # n) no provider other than n has Start() called.
C3_ActivationSerialized ==
  /\ \A t \in Threads : InActivateHooks(t) => mu_ = t
  /\ lastStarted # "" =>
        \/ /\ rpc[startedBy] = "act_commit"
           /\ rname[startedBy] = lastStarted
           /\ mu_ = startedBy
        \/ /\ active_provider_ = lastStarted
           /\ \A t \in Threads : rpc[t] # "act_commit"

\* C3 witness: Start() has been called inside an Activate that switches away
\* from a previously active provider while another thread's Activate of a
\* different provider is waiting for the mutex.
C3_Witness ==
  \E t, u \in Threads :
    /\ t # u
    /\ rpc[t] = "act_commit" /\ rprev[t] # "" /\ lastStarted = rname[t]
    /\ rpc[u] = "activate" /\ rname[u] # rname[t]

\* C4: at most one provider is active, the active provider being the one
\* that holds a loaded model: a provider that is not the active one holds
\* no loaded model.
C4_OnlyActiveHoldsModel ==
  \A p \in Providers : loaded[p] => active_provider_ = p

(***************************************************************************)
(* Claims about the session manager.                                       *)
(***************************************************************************)
IsAppend(call) == call.op \in {"AppendTurn", "AppendToHistory"}

Items(seq) == {seq[i] : i \in 1..Len(seq)}

EndsWith(seq, x) == Len(seq) > 0 /\ Last(seq) = x

\* C5: after AppendTurn(sid, t) has returned, and as long as no later
\* AppendTurn has appended to sid, the turns of sid end with t both in the
\* in-memory map and in the backing store.
C5_TurnPersisted ==
  \A t \in Threads :
    (/\ hasStore
     /\ spc[t] = "idle"
     /\ sop[t].op = "AppendTurn"
     /\ lastTurn[sop[t].sid] = sop[t].item)
    => /\ EndsWith(sessions_[sop[t].sid].turns, sop[t].item)
       /\ EndsWith(store_[sop[t].sid].turns, sop[t].item)

\* C8: two concurrent writes to the same session take effect one after the
\* other: once both have returned, memory and store hold both items and the
\* store holds the session as the later write left it.
C8_WritesSerialized ==
  (/\ hasStore
   /\ \A t \in Threads : spc[t] = "idle" /\ sops[t] = 1 /\ IsAppend(sop[t])
   /\ sop[1].sid = sop[2].sid)
  => LET sid == sop[1].sid
         inMem == Items(sessions_[sid].history) \cup Items(sessions_[sid].turns)
         inStore == Items(store_[sid].history) \cup Items(store_[sid].turns)
     IN /\ {sop[1].item, sop[2].item} \subseteq inMem
        /\ {sop[1].item, sop[2].item} \subseteq inStore
        /\ store_[sid] = sessions_[sid]


(***************************************************************************)
(* Claims about the tool orchestrator.                                     *)
(***************************************************************************)
\* RunToolLoop or RunPlanner has returned to the handler
Returned == lpc \in {"loop_ret", "plan_ret", "done"}

\* C1: when a run of the orchestrator returns, executed_calls has at most
\* max_tool_calls entries (stated for the requests whose max_tool_calls is
\* not negative; a negative one is clamped to 0)
C1_CallsWithinBudget ==
  (Returned /\ req.max_tool_calls >= 0)
    => Len(loop.executed_calls) <= req.max_tool_calls

\* C2: when a direct-loop run returns, steps is at most the caller's
\* max_steps (stated for max_steps >= 1; a smaller one is clamped to 1);
\* when a planner run returns, steps is at most 2
C2_StepsWithinBudget ==
  Returned =>
    IF loop.used_planner
    THEN loop.steps <= 2
    ELSE req.max_steps >= 1 => loop.steps <= req.max_steps


(***************************************************************************)
(* Claims about the streaming handler.                                     *)
(***************************************************************************)
\* the events of the response without the SSE comments
Chunks == SelectSeq(events, LAMBDA e : e.kind # "comment")

\* a chunk with a non-null finish_reason has been written
FinishWritten == \E i \in 1..Len(events) : events[i].fin # ""

\* the content provider ran to its end with the client connected
Delivered == lpc = "done" /\ http = 0 /\ connected

C7_CallThenResult ==
  req.path = "live" =>
    \A i \in 1..Len(events) : \A j \in (i + 1)..Len(events) :
      ( /\ events[i].kind = "tool_call"
        /\ \/ events[j].kind \in {"text", "finish", "done"}
           \/ events[j].kind = "tool_call" /\ events[j].id # events[i].id )
      => \E k \in (i + 1)..(j - 1) :
            events[k].kind = "tool_result" /\ events[k].id = events[i].id

\* C9 as stated: once the connection is unwritable no event is written and
\* neither AppendTurn nor AppendToHistory is called
C9_NoUpdateAfterDisconnect ==
  [][~connected => (events' = events /\ appended' = appended)]_vars

\* C9 as the code has it: once the connection is unwritable no event is
\* written, and AppendTurn / AppendToHistory are called only after the chunk
\* with the non-null finish_reason has been written, so not for a response
\* whose connection was lost before that chunk
C9_NoUpdateBeforeFinish ==
  [][ /\ ~connected => events' = events
      /\ appended' # appended => FinishWritten ]_vars

\* C9 witness: the connection was lost after the first chunks and before the
\* finish chunk; the handler gave up and the session was not touched
C9_Witness ==
  /\ lpc = "aborted"
  /\ ~connected
  /\ Len(events) >= 2
  /\ ~FinishWritten
  /\ appended = <<>>

\* C10: the request task does not finish while a helper task it waits for
\* is still running
C10_FinishAfterHelper ==
  [][(~Finished /\ Finished') => helper # "running"]_vars

(***************************************************************************)
(* Claims about tool-level errors, the planner and the handlers.           *)
(***************************************************************************)
\* the call the direct loop works on is a tool-level error: the loop rejects
\* it (verdict v), it is out of budget, or its handler reports a failure
ToolLevelError(c, v) == v # "run" \/ ~c.ok

\* C11: for each tool-level error inside the direct loop (tool not allowed,
\* tool not found, invalid arguments, a failing handler, out of budget) the
\* loop records a ToolResult with ok = false for that call and goes on with
\* the remaining calls or the next model step: the run is not ended by it
C11_ToolErrorContinues ==
  [][ ( /\ lpc = "loop_calls"
        /\ loc.pending # <<>>
        /\ ToolLevelError(Head(loc.pending),
                          LoopVerdict(Head(loc.pending), loc.tool_calls_used,
                                      loc.max_tool_calls)) )
      => /\ Len(loop'.results) = Len(loop.results) + 1
         /\ Last(loop'.results).tool_call_id = Head(loc.pending).id
         /\ ~Last(loop'.results).ok
         /\ lpc' \in {"loop_calls", "loop_top"} ]_vars

\* the tool_result events of call id written after event i and before event j
ResultsBetween(id, i, j) ==
  {k \in (i + 1)..(j - 1) : events[k].kind = "tool_result" /\ events[k].id = id}

\* C12: in a streamed server-managed run every tool call whose chunks are
\* written is followed, before the chunks of any other tool call, any text
\* chunk or the stop chunk, by exactly one tool_result delta with the id of
\* the call
C12_OneResultPerCall ==
  req.path = "live" =>
    \A i \in 1..Len(events) : \A j \in (i + 1)..Len(events) :
      ( /\ events[i].kind = "tool_call"
        /\ \/ events[j].kind \in {"text", "finish"}
           \/ events[j].kind = "tool_call" /\ events[j].id # events[i].id )
      => Cardinality(ResultsBetween(events[i].id, i, j)) = 1

\* RunPlanner / run_planner_stream has returned to the handler
PlannerReturned == lpc \in {"plan_ret", "p_ret"}

\* C13: whenever the planner ends with planner_failed = true, with trace and
\* in live streaming alike, the next thing the handler does is run the direct
\* tool loop from a fresh loop state, so that the loop's result is what the
\* client receives
C13_FailedPlannerFallsBack ==
  [][ (PlannerReturned /\ loop.planner_failed /\ lpc' # lpc /\ lpc' # "aborted")
      => (lpc' \in {"loop_top", "l_top"} /\ loop' = ToolLoopResult0) ]_vars

\* max_rewrites as the planner uses it (a negative one counts as 0)
MaxRewrites == ClampCalls(req.max_plan_rewrites)

\* the step in which a request for a plan is answered: ChatOnceText returns
\* in RunPlanner, run_chat_once returns true in run_planner_stream
PlanAnswered ==
  \/ lpc = "plan_top" /\ <<loc, lpc>>' # <<loc, lpc>>
  \/ lpc = "p_wait" /\ lpc' \notin {"p_wait", "aborted"}

\* C14: in the plan phase the model is asked for a plan at most
\* max_rewrites + 1 times (every answered request either ends the phase or
\* raises the attempt counter by one, and the planner comes back for another
\* request only while the counter is at most max_rewrites), the reported
\* plan_rewrites is at most max_rewrites, and a phase that ends without a
\* final answer or an accepted plan ends with planner_failed = true and with
\* no tool executed
C14_PlanPhaseBounded ==
  [][ /\ PlanAnswered =>
           \/ lpc' \in {"plan_top", "p_top"} /\ loc'.attempt = loc.attempt + 1
           \/ lpc' \in {"plan_exec", "p_exec"}
           \/ /\ PlannerReturned'
              /\ \/ loop'.planner_failed
                 \/ loop'.final_text = "ok" /\ loop'.steps = 1
      /\ lpc' \in {"plan_top", "p_top"} => loc'.attempt <= MaxRewrites
      /\ loop'.plan_rewrites <= MaxRewrites
      /\ (loop'.used_planner /\ loop'.planner_failed)
           => (loop'.executed_calls = <<>> /\ loop'.results = <<>>) ]_vars

\* C14 witness: a streamed planner whose first plan was rejected and rewritten
\* and whose last allowed attempt was rejected too: it has returned with
\* planner_failed and has executed nothing
C14_Witness ==
  /\ req.path = "live"
  /\ lpc = "p_ret"
  /\ loop.planner_failed
  /\ err = ""
  /\ MaxRewrites >= 1
  /\ loc.attempt = MaxRewrites
  /\ loc.rewrites = MaxRewrites
  /\ loop.executed_calls = <<>>

\* the tool handlers of the request that have been started and have not
\* returned: the one execute_tool waits for and the ones it gave up waiting
\* for
RunningHandlers ==
  detached.tool + (IF helper = "running" /\ lpc \in ToolWaits THEN 1 ELSE 0)

\* C15: during plan execution the handler of a step is not started before
\* the handler of the step before it has finished: at no time are two tool
\* handlers of the request running, also after a tool wait has timed out
C15_OneHandlerAtATime == req.planner => RunningHandlers <= 1

\* a wait of the request has run into its timeout
TimedOut ==
  \/ err = "timeout waiting for model"
  \/ \E k \in 1..Len(loop.results) :
        loop.results[k].error = "timeout waiting for tool" /\ ~loop.results[k].ok

\* the response has come to its end, one way or another
ResponseOver == lpc \in {"done", "aborted", "crashed"}

HandlerResults(l) ==
  {k \in 1..Len(l.results) : l.results[k].error \notin RejectVerdicts}

\* the handlers the run has invoked so far
Invoked(l, pc) == Cardinality(HandlerResults(l)) + (IF pc = "l_tool" THEN 1 ELSE 0)

\* the step in which the direct loop invokes the handler of the call at the
\* head of pending: inline in RunToolLoop, by execute_tool in
\* run_tool_loop_stream
HandlerInvoked ==
  \/ /\ lpc = "loop_calls"
     /\ Len(loop'.results) = Len(loop.results) + 1
     /\ Last(loop'.results).error \notin RejectVerdicts
  \/ lpc = "l_check" /\ lpc' = "l_tool"

\* C17: in the direct loop a handler is invoked only for a call whose name is
\* in the allowed set (or the set is empty) and in the registry, and only
\* while fewer than max_tool_calls handlers have been invoked in the run;
\* hence a run invokes at most max_tool_calls handlers
C17_HandlerGuarded ==
  [][ /\ HandlerInvoked =>
           /\ AllowedNames = {} \/ Head(loc.pending).name \in AllowedNames
           /\ HasTool(Head(loc.pending).name)
           /\ Invoked(loop, lpc) < ClampCalls(req.max_tool_calls)
      /\ ~loop'.used_planner =>
           Invoked(loop', lpc') <= ClampCalls(req.max_tool_calls) ]_vars

\* C17 witness: a streamed direct loop that invoked as many handlers as the
\* budget allows and then refused a further call of an allowed tool
C17_Witness ==
  /\ req.path = "live"
  /\ ~req.planner
  /\ lpc = "l_ret"
  /\ loop.hit_tool_limit
  /\ req.max_tool_calls >= 1
  /\ Invoked(loop, lpc) = req.max_tool_calls

\* RunToolLoop as a function of the answers of the model: the
\* ToolLoopResults it can return from the head of its step loop with the
\* result l built so far and the locals lc (LoopResultsFrom), and from the
\* head of its call loop (CallResultsFrom)
RECURSIVE LoopResultsFrom(_, _), CallResultsFrom(_, _)
LoopResultsFrom(l, lc) ==
  IF lc.step >= lc.max_steps
  THEN {[l EXCEPT !.hit_step_limit = TRUE, !.final_text = LimitStepsText]}
  ELSE LET l1 == [l EXCEPT !.steps = lc.step + 1]
           after(o) ==
             CASE o.kind = "error" -> {l1}
               [] o.kind = "calls" ->
                    CallResultsFrom(l1,
                      [lc EXCEPT !.pending = [k \in 1..Len(o.calls) |->
                                                MakeCall(o.calls[k], lc.nid + k)],
                                 !.nid = lc.nid + Len(o.calls)])
               [] OTHER -> {[l1 EXCEPT !.final_text = o.text]}
       IN  UNION {after(o) : o \in StreamOutputs}

CallResultsFrom(l, lc) ==
  IF lc.pending = <<>>
  THEN LoopResultsFrom(l, [lc EXCEPT !.step = lc.step + 1])
  ELSE LET c == Head(lc.pending)
           v == LoopVerdict(c, lc.tool_calls_used, lc.max_tool_calls)
           rest == [lc EXCEPT !.pending = Tail(lc.pending)]
       IN  CASE v \in RejectVerdicts ->
                  CallResultsFrom(
                    [l EXCEPT !.executed_calls = Append(@, CallOf(c)),
                              !.results = Append(@, RejectResult(c, v))], rest)
             [] v = "limit" ->
                  {[l EXCEPT !.hit_tool_limit = TRUE, !.final_text = LimitCallsText]}
             [] v = "no handler" -> CallResultsFrom(l, rest)
             [] OTHER ->
                  CallResultsFrom(
                    [l EXCEPT !.executed_calls = Append(@, CallOf(c)),
                              !.results = Append(@, HandlerResult(c))],
                    [rest EXCEPT !.tool_calls_used = lc.tool_calls_used + 1])

\* what RunToolLoop can return for the request
RunToolLoopResults ==
  LoopResultsFrom(ToolLoopResult0,
                  [LocZero EXCEPT !.max_steps = ClampSteps(req.max_steps),
                                  !.max_tool_calls = ClampCalls(req.max_tool_calls)])

\* C18 (as it bears on the direct loop): with no timeout and no disconnect
\* the streaming orchestrator ends with a loop state (final_text,
\* executed_calls, results, steps, hit_step_limit, hit_tool_limit, planner
\* flags) that the non-streaming RunToolLoop returns for the same request
\* and answers of the model
C18_SameLoopState ==
  ( /\ req.path = "live"
    /\ ~req.planner
    /\ lpc = "l_ret"
    /\ ~TimedOut
    /\ connected )
  => loop \in RunToolLoopResults

(***************************************************************************)
(* Claims about the session manager's map and store.                       *)
(***************************************************************************)
IsPrefix(a, b) == Len(a) <= Len(b) /\ SubSeq(b, 1, Len(a)) = a

\* the session new keeps everything the session old has recorded
Extends(old, new) ==
  IsPrefix(old.history, new.history) /\ IsPrefix(old.turns, new.turns)

\* C19: for every session id and every interleaving of GetOrCreate,
\* AppendToHistory and AppendTurn, each successive value of the session's
\* history and turns, in the in-memory map and in the store, has the previous
\* value as a prefix: no step removes or replaces what is recorded
C19_HistoryAppendOnly ==
  [][ \A sid \in Sids :
        /\ Extends(sessions_[sid], sessions_'[sid])
        /\ Extends(store_[sid], store_'[sid]) ]_vars

\* no SessionManager operation is in progress
Quiescent == \A t \in Threads : spc[t] = "idle"

\* C20: when a store is configured and no SessionManager operation is in
\* progress, every session held in the in-memory map has the history and the
\* turns of the session stored under the same id
C20_CacheMatchesStore ==
  (hasStore /\ Quiescent) =>
    \A sid \in Sids :
      sessions_[sid].present =>
        /\ store_[sid].history = sessions_[sid].history
        /\ store_[sid].turns = sessions_[sid].turns

(***************************************************************************)
(* Claims about the file session store.                                    *)
(***************************************************************************)
\* the threads that appended to the session sid
WritersOf(sid) ==
  {t \in Threads : \E k \in 1..(MaxSaves + 1) :
     ItemOf(t, k) \in Items(sessions_[sid].history) \cup Items(sessions_[sid].turns)}

\* no session was written by two threads
WritesAcrossSessions == \A sid \in Sids : Cardinality(WritersOf(sid)) <= 1

\* C21: when the request threads write to different sessions only, then once
\* all writes have returned the store's map and the persisted file hold, for
\* every session written, what the in-memory map holds.
C21_IndependentSessions ==
  (WritesAcrossSessions /\ Quiescent)
    => \A sid \in Sids :
         sessions_[sid].present
           => /\ store_[sid] = sessions_[sid]
              /\ disk.path.kind = "doc"
              /\ disk.path.sessions[sid] = sessions_[sid]

\* C22: once path_ holds a complete document it holds a complete document
\* after every step of every later Save, so also when the process stops
\* between two steps.
C22_PersistAtomic ==
  [][disk.path.kind = "doc" => disk'.path.kind = "doc"]_vars

(***************************************************************************)
(* Claims about the MCP client.                                            *)
(***************************************************************************)
\* the callers whose RPC is in flight: past the gate and not yet returned
InFlight == {t \in McpCallers : mpc[t] \in {"make", "post", "wait"}}

\* a caller arrives while max_in_flight_ RPCs are in flight
ArrivesAtLimit(t) ==
  /\ mpc[t] = "idle"
  /\ mcalls'[t] = mcalls[t] + 1
  /\ Cardinality(InFlight) >= max_in_flight_

\* the call of t has returned an error in the step, and nothing was sent
FailsFast(t, text) ==
  /\ mpc'[t] = "idle"
  /\ merr'[t] = text
  /\ posted' = posted
  /\ in_flight_' = in_flight_

\* C23 as stated: at most max_in_flight RPCs are in flight, and a call that
\* arrives at the limit returns in its first step with the error
\* "too many in-flight requests", having sent nothing.
C23_GateAsStated ==
  [][ /\ Cardinality(InFlight') <= max_in_flight_
      /\ \A t \in McpCallers :
           ArrivesAtLimit(t) => FailsFast(t, "too many in-flight requests") ]_vars

\* C23 with the error text of the code: the same, the error being
\* "mcp: too many in-flight requests".
C23_GateBounded ==
  [][ /\ Cardinality(InFlight') <= max_in_flight_
      /\ in_flight_' = Cardinality(InFlight')
      /\ \A t \in McpCallers :
           ArrivesAtLimit(t) => FailsFast(t, TooManyText) ]_vars

\* max_in_flight RPCs are in flight and a further caller has been turned away
C23_Witness ==
  /\ Cardinality(InFlight) = max_in_flight_
  /\ \E t \in McpCallers \ InFlight : merr[t] = TooManyText /\ mpc[t] = "idle"

(***************************************************************************)
(* Claims about the parsing of tool calls.                                 *)
(***************************************************************************)
\* C24: ParseToolCallsFromAssistantText returns none or a non-empty list,
\* and every call returned has a non-empty name and an arguments_json that
\* as a whole parses as a JSON value.
C24_ParsedCallsWellFormed ==
  presult.done
    => /\ presult.has => presult.calls # <<>>
       /\ \A i \in 1..Len(presult.calls) :
            /\ presult.calls[i].name # ""
            /\ JsonParses(presult.calls[i].arguments_json)

(***************************************************************************)
(* Claims about the arguments and the result of a tool call.               *)
(***************************************************************************)
\* the arguments are an object that conforms to the schema: every key is a
\* property of the schema, every required key is there, every value has the
\* declared type
Conforming(sc, a) ==
  /\ a.kind = "object" /\ sc.type = "object"
  /\ KeysOf(a.obj) \subseteq PropsOf(sc)
  /\ sc.required \subseteq KeysOf(a.obj)
  /\ \A k \in KeysOf(a.obj) : CheckType(sc.props[k], a.obj[k])

\* C25: the repair of RunToolLoop leaves an arguments object that conforms
\* to the tool's schema as it is.
C25_RepairKeepsValidArgs ==
  (amode = "loop" /\ apc # "start" /\ Conforming(aschema, ain)) => jargs = ain

\* the call has ended with a ToolResult
HasResult == apc \in {"rejected", "invoked", "timeout"}

\* C27: the result of every ToolResult is a JSON object with a boolean ok,
\* and when ok is false the error is non-empty and equals result.error.
C27_ResultShape ==
  HasResult
    => /\ aresult.result.is_object
       /\ aresult.result.has_ok
       /\ ~aresult.ok => (aresult.error # "" /\ aresult.result.error = aresult.error)

\* the keys whose value has a primitive type other than the declared one
Mismatched(sc, a) ==
  IF a.kind # "object" THEN {}
  ELSE {k \in PropsOf(sc) : a.obj[k].t # "none" /\ a.obj[k].t # sc.props[k]}

\* the error the call was turned away with
RejectedWith ==
  IF apc = "rejected" THEN aresult.error
  ELSE IF apc = "plan_rejected" THEN schema_err ELSE ""

\* C30: a call with an argument of another primitive type than its schema
\* declares (and no other defect) is turned away with
\* "field type mismatch: <key>"; no handler is invoked and the value is not
\* converted.
C30_TypeMismatchRejected ==
  (/\ apc # "start"
   /\ aschema.type = "object"
   /\ aschema.required \subseteq KeysOf(ain.obj)
   /\ Mismatched(aschema, ain) # {})
    => /\ apc \in {"rejected", "plan_rejected"}
       /\ \E k \in Mismatched(aschema, ain) :
            RejectedWith = MismatchText(k) /\ jargs.obj[k] = ain.obj[k]

\* the canonical path an argument denotes under the workspace root
CanonicalOf(root, in) == WeakCanonical(UnderRoot(root, RawPath(in)))

\* the canonical path is the root directory or lies below it
InsideRoot(p, dir) == Len(dir) <= Len(p) /\ SubSeq(p, 1, Len(dir)) = dir

\* C26: when a filesystem tool built with a workspace root has handled a path
\* or a file:// URI that could be canonicalised, every file it read or wrote
\* lies inside the canonical root, and for a path that does not lie inside
\* the call failed with "path is outside workspace root" and no file was
\* read, written or created.
C26_ConfinedToRoot ==
  LET root == EffectiveRoot(fs_tool, workspace_root)
  IN  (fs_pc = "done" /\ root.set /\ fs_error # "invalid path") =>
        /\ \A p \in fs_touched : InsideRoot(p, WeakCanonical(root.dir))
        /\ ~InsideRoot(CanonicalOf(root, fs_in), WeakCanonical(root.dir)) =>
             (fs_error = OutsideText /\ fs_touched = {} /\ fs_files = Files0)

\* C29: the last upstream HTTP call, made by a provider adapter or by the MCP
\* client on the request thread or on a helper thread, carried exactly the
\* auth headers of the request it was made for, and a server thread that is
\* between requests has no headers bound.
C29_CallsCarryRequestHeaders ==
  /\ upstream.kind # "none" => upstream.saw = upstream.of
  /\ \A t \in RequestThreads : hpc[t] = "idle" => g_request_auth_headers[t] = NoHeaders

\* the hooks an Activate(n) that found `was` active has to call, in order
ExpectedHooks(was, n) ==
  (IF was # "" THEN <<Hook("Stop", was)>> ELSE <<>>) \o <<Hook("Start", n)>>

ActivateReturned(t) == rpc[t] \in {"chat", "generating", "idle"}

\* what the hooks called so far by the Activate calls look like
ActivateHooksInOrder ==
  \A t \in Threads :
    rlog[t] # <<>> =>
      LET was == rlog[t][1].on
          hooks == Tail(rlog[t])
      IN  IF was = rname[t]
            THEN hooks = <<>> /\ ActivateReturned(t)
            ELSE /\ IsPrefix(hooks, ExpectedHooks(was, rname[t]))
                 /\ ActivateReturned(t) => hooks = ExpectedHooks(was, rname[t])

\* what the first and the last step of an Activate call do to the registry
ActivateStepsAsStated ==
  \A t \in Threads :
    /\ (rpc[t] = "activate" /\ rpc'[t] = "chat") =>
         /\ active_provider_ = rname[t]
         /\ UNCHANGED <<active_provider_, mu_, pmu, loaded, lastStarted, startedBy>>
    /\ (rpc[t] = "act_commit" /\ rpc'[t] # "act_commit") => active_provider_' = rname[t]

\* C28: an Activate(n) of a registered n that finds n active calls no hook,
\* changes nothing and returns; one that finds another provider active calls
\* that provider's Stop() once, then, Stop() having returned, n's Start()
\* once, and nothing else (with no provider active, Start() alone), and at
\* its return n is the active provider.
C28_ActivateProtocol == []ActivateHooksInOrder /\ [][ActivateStepsAsStated]_vars

\* C28 witness: an Activate that switched from one provider to another has
\* returned after calling Stop() on the first and Start() on the second.
C28_Witness ==
  \E t \in Threads :
    /\ rpc[t] = "chat"
    /\ Len(rlog[t]) = 3
    /\ rlog[t][1].on # ""
    /\ rlog[t][2] = Hook("Stop", rlog[t][1].on)
    /\ rlog[t][3] = Hook("Start", rname[t])
    /\ active_provider_ = rname[t]

\* C39: the in-flight counter of an MCP client is never negative and equals
\* the number of admitted RPCs that have not returned yet, so that it is 0
\* once all of them have returned; the return of an admitted RPC, whatever
\* its outcome (connect failure, HTTP error, invalid JSON, JSON-RPC error,
\* missing result, success), lowers it by exactly one.
C39_CounterBalanced ==
  /\ [](in_flight_ >= 0 /\ in_flight_ = Cardinality(InFlight))
  /\ []((\A t \in McpCallers : mpc[t] = "idle") => in_flight_ = 0)
  /\ [][\A t \in McpCallers :
          (mpc[t] = "wait" /\ mpc'[t] = "idle") => in_flight_' = in_flight_ - 1]_vars

\* C39 witness: after two RPCs were in flight together and one of them has
\* failed, both have returned and the counter is back at 0.
C39_Witness ==
  /\ in_flight_ = 0
  /\ \A t \in McpCallers : mpc[t] = "idle"
  /\ posted >= 2
  /\ \E t \in McpCallers : merr[t] \in RpcOutcomes \ {""}
  /\ \E t \in McpCallers : mcalls[t] > 0 /\ merr[t] = ""

\* the callers whose request has been handed to cli->Post
Sent == {t \in McpCallers : mpc[t] = "wait"}

\* C40: any two RPCs of one MCP client that were admitted by the gate and
\* sent carry different JSON-RPC request ids.
C40_DistinctRequestIds ==
  \A t, u \in Sent : t # u => mid[t] # mid[u]

\* the step loop is entered with no step left
StepBoundReached == lpc \in {"loop_top", "l_top"} /\ loc.step >= loc.max_steps

\* the next call of the direct loop, or the next plan step, could run but
\* the budget of handler calls is used up
BudgetExhausted ==
  /\ loc.tool_calls_used >= loc.max_tool_calls
  /\ \/ /\ lpc = "loop_calls" /\ loc.pending # <<>>
        /\ Head(loc.pending).name \in AllowedNames
        /\ HasTool(Head(loc.pending).name)
     \/ lpc = "plan_exec" /\ loc.i < Len(loc.plan)

RunReturned == lpc \in {"loop_ret", "plan_ret", "done"}

\* what a returned run shows of the bound that ended it, and how the request ends
LimitsShown ==
  /\ (RunReturned /\ loop.hit_step_limit) => loop.final_text = "tool loop exceeded max steps"
  /\ (RunReturned /\ loop.hit_tool_limit) => loop.final_text = "tool call limit exceeded"
  /\ (lpc = "done" /\ (loop.hit_step_limit \/ loop.hit_tool_limit)) => http = 200

\* what the step that meets a bound does
LimitsSet ==
  /\ (StepBoundReached /\ lpc' # lpc) =>
       (loop'.hit_step_limit /\ loop'.final_text = "tool loop exceeded max steps")
  /\ (BudgetExhausted /\ (lpc' # lpc \/ loc' # loc)) =>
       (loop'.hit_tool_limit /\ loop'.final_text = "tool call limit exceeded"
          /\ lpc' \in {"loop_ret", "plan_ret"})

OrchestratorReturned == lpc \in {"loop_ret", "plan_ret", "l_ret", "p_ret", "tail", "done"}

\* C37: when an orchestrator run has returned, executed_calls and results
\* have the same length and results[i] carries the tool_call_id and the name
\* of executed_calls[i] for every i.
C37_ResultsPairCalls ==
  OrchestratorReturned =>
    /\ Len(loop.executed_calls) = Len(loop.results)
    /\ \A i \in 1..Len(loop.executed_calls) :
         i <= Len(loop.results) =>
           /\ loop.results[i].tool_call_id = loop.executed_calls[i].id
           /\ loop.results[i].name = loop.executed_calls[i].name

\* C36: no helper thread goes on using data of the request task after the
\* request task has left the scope that owns them. The thread of
\* run_chat_once holds copies; the thread of execute_tool holds the
\* handler, the call and its arguments by reference, so no such thread may
\* be running once execute_tool has returned, be it by completion, by
\* timeout or by disconnect.
C36_HelpersStayInScope == detached.tool = 0

\* thread t is inside ProviderRegistry::Activate (called, not yet returned)
InActivate(t) == rpc[t] \in {"activate", "act_stop", "act_start", "act_commit"}

\* thread t is blocked on a mutex: on mu_ at the entry of Activate, or on the
\* adapter mutex inside Stop() or Start()
WaitsFor(t) ==
  IF rpc[t] = "activate" /\ ~RegistryMutexFree THEN {mu_}
  ELSE IF rpc[t] = "act_stop" /\ HasPrevious(rprev[t])
            /\ HoldsMutexWhileGenerating(rprev[t]) /\ ~AdapterMutexFree(rprev[t])
         THEN {pmu[rprev[t]]}
  ELSE IF rpc[t] = "act_start" /\ HoldsMutexWhileGenerating(rname[t])
            /\ ~AdapterMutexFree(rname[t])
         THEN {pmu[rname[t]]}
  ELSE {}

\* no thread waits for itself, and no two threads wait for each other
NoWaitCycle ==
  \A t \in Threads :
    /\ t \notin WaitsFor(t)
    /\ \A u \in WaitsFor(t) : t \notin WaitsFor(u)

\* a thread holds an adapter mutex only while its generation call runs, and
\* such a thread holds no registry mutex and waits for none
GeneratingHoldsOnlyAdapter ==
  \A p \in Providers :
    pmu[p] # 0 => (rpc[pmu[p]] = "generating" /\ mu_ # pmu[p] /\ WaitsFor(pmu[p]) = {})

C31_ArgumentsVerbatim ==
  tool_calls.sent =>
    /\ Len(tool_calls.calls) = Len(presult.calls)
    /\ \A i \in 1..Len(tool_calls.calls) :
         /\ tool_calls.calls[i].name = presult.calls[i].name
         /\ tool_calls.calls[i].arguments = presult.calls[i].arguments_json

\* every item of the document has a non-empty id, a non-empty name and
\* object arguments, and is of type "function" if it has a type
PlainDocument == \A i \in 1..Len(tc_doc) : tc_doc[i] \in PlainItems

NothingReplaced == replaced = {}

\* a remote tool is exposed under its own name or under mcpN.<name>, N the
\* 1-based index of its server among the configured endpoints
PrefixIsEndpointIndex ==
  \A n \in AllNames :
    handlers_[n].kind = "mcp" =>
      (n = handlers_[n].name \/ n = Prefixed(handlers_[n].host, handlers_[n].name))

\* C32: after MCP discovery and after any number of refreshes two different
\* tools, built-in or of different MCP servers, never share an exposed name:
\* a remote tool whose name is taken is registered as mcpN.<name>, N the
\* 1-based index of its server among the configured MCP endpoints, and
\* registering it does not replace the earlier tool.
C32_ExposedNamesUnique == NothingReplaced /\ PrefixIsEndpointIndex

\* ms rounded up to a whole number of polling intervals
RoundUp(ms) == ((ms + PollMs - 1) \div PollMs) * PollMs

=============================================================================
